---- MODULE Spec2Model ----
(***************************************************************************)
(* Model of the timer scheduling layer of discord_timer_bot (src/index.js). *)
(*                                                                         *)
(* State: the module-level maps of index.js (activeTimers, defaultTimes,   *)
(* timerMessages, timerUpdateThrottle), the timer objects they and the     *)
(* scheduled callbacks refer to, the handlers and callbacks suspended at   *)
(* an await, and the clock.  One action per handler segment between two    *)
(* awaits, per scheduled callback and per clock advance.                   *)
(*                                                                         *)
(* JavaScript values: a Map is a function whose DOMAIN is its key set; an  *)
(* object is a record and a deleted/absent property is a missing field; a  *)
(* handle-valued property (timeoutId, warningTimeoutId, updateIntervalId)  *)
(* is the set of armed handles it refers to: empty when the property is    *)
(* null or the handle was cleared or has fired; null results are << >>.    *)
(***************************************************************************)
EXTENDS Integers, FiniteSets, Sequences, TLC

VARIABLES now, activeTimers, timers, defaultTimes, timerMessages,
          timerUpdateThrottle, pending, expiring, events, result, lastPush,
          voiceConnections, connections, joining,
          microphoneUnmuteHistory, userCooldowns, ran, warned

vars == <<now, activeTimers, timers, defaultTimes, timerMessages,
          timerUpdateThrottle, pending, expiring, events, result, lastPush,
          voiceConnections, connections, joining,
          microphoneUnmuteHistory, userCooldowns, ran, warned>>

\* the voice connections: the map of recorded connections, the connection
\* objects, and the joinVoiceChannelBot calls suspended at their await
voiceVars == <<voiceConnections, connections, joining>>

\* the timers and what the commands on them read and write
timerVars == <<now, activeTimers, timers, defaultTimes, timerMessages,
               timerUpdateThrottle, pending, expiring, events, result, lastPush>>

\* the unmute history of each guild and the time of each user's last
\* accepted command
guardVars == <<microphoneUnmuteHistory, userCooldowns>>

\* what is remembered of each timer object for the properties: the time it
\* has spent running, and whether its warning cue has fired
historyVars == <<ran, warned>>

\* a step of the timers adds the time that passed to the running time of
\* every timer object that was not paused ...
RunTime ==
    [tid \in DOMAIN timers' |->
        IF tid \in DOMAIN timers
        THEN ran[tid] + (IF timers[tid].isPaused THEN 0 ELSE now' - now)
        ELSE 0]

\* ... and remembers the timer objects whose warning cue it played
Warned ==
    ((warned \cap DOMAIN timers)
        \cup {e.tid : e \in {x \in events' : x.type = "warning_sound"}})
      \cap DOMAIN timers'

----------------------------------------------------------------------------
(* Program constants *)

MAX_TIMERS_PER_GUILD == 10
MAX_TOTAL_TIMERS == 100
MIN_TIMER_DURATION == 1000
MAX_TIMER_DURATION == 86400000
WARNING_TIME_BEFORE_END == 60000
DEFAULT_TIMER_DURATION == 300000
TIMER_UPDATE_INTERVAL == 1000
UPDATE_THROTTLE_MS == 500

(* Bounds of the model *)

\* Date.now() when the run starts (any instant later than the throttle window)
BootTime == 1000000
\* the clock is followed for this many ms after BootTime
Horizon == 180000
\* handlers suspended between their pre-clear and their startTimer call
MaxPending == 1
\* timer objects that are kept alive only by a handle or callback
MaxDetached == 1

MaxTime == BootTime + Horizon
\* the same for the runs that start near the capacity limits
HorizonCap == 60000

MaxTimeCap == BootTime + HorizonCap

\* amounts by which the clock advances when no timeout is due earlier
Deltas == {60000}

----------------------------------------------------------------------------
(* The universe: channels and the guild each belongs to.  Guild 1 owns    *)
(* MAX_TIMERS_PER_GUILD + 1 channels, the following guilds own            *)
(* MAX_TIMERS_PER_GUILD channels each, so that both caps can be reached.  *)

Channels == 1..(MAX_TOTAL_TIMERS + 2)

GuildOf(c) ==
    IF c <= MAX_TIMERS_PER_GUILD + 1 THEN 1
    ELSE ((c - (MAX_TIMERS_PER_GUILD + 2)) \div MAX_TIMERS_PER_GUILD) + 2

\* channels on which commands are issued: one of guild 1, one of the last guild
CmdChannels == {1, MAX_TOTAL_TIMERS + 2}

\* channels that may hold a timer from before the run (see Init)
BackgroundTenant == 2..(MAX_TIMERS_PER_GUILD + 1)
BackgroundAlmost == 2..MAX_TIMERS_PER_GUILD
BackgroundGlobal == 2..MAX_TOTAL_TIMERS

\* duration strings typed by users, as sequences of characters
CsArgs == { << >>, <<"a", "b", "c">>, <<"0", "s">>, <<"1", "m">>, <<"2", "5", "h">> }

SlashArgs == { << >>, <<"5", "x">>, <<"2", "M">>, <<"2", "5", "h">> }

SetArgs == { <<"0", "s">> }

----------------------------------------------------------------------------
(* Map helpers *)

MapSet(m, k, v) == [x \in (DOMAIN m) \cup {k} |-> IF x = k THEN v ELSE m[x]]

MapDelete(m, k) == [x \in (DOMAIN m) \ {k} |-> m[x]]

Max(a, b) == IF a >= b THEN a ELSE b

----------------------------------------------------------------------------
(* parseTime *)

Digits == {"0", "1", "2", "3", "4", "5", "6", "7", "8", "9"}

DigitVal(ch) ==
    CASE ch = "0" -> 0 [] ch = "1" -> 1 [] ch = "2" -> 2 [] ch = "3" -> 3
      [] ch = "4" -> 4 [] ch = "5" -> 5 [] ch = "6" -> 6 [] ch = "7" -> 7
      [] ch = "8" -> 8 [] ch = "9" -> 9

RECURSIVE parseInt(_)
parseInt(ds) ==
    IF ds = << >> THEN 0
    ELSE 10 * parseInt(SubSeq(ds, 1, Len(ds) - 1)) + DigitVal(ds[Len(ds)])

toLowerCase(ch) ==
    CASE ch = "S" -> "s" [] ch = "M" -> "m" [] ch = "H" -> "h" [] OTHER -> ch

\* timeStr.match(/^(\d+)([smh])$/i)
MatchesTime(timeStr) ==
    /\ Len(timeStr) >= 2
    /\ \A i \in 1..(Len(timeStr) - 1) : timeStr[i] \in Digits
    /\ toLowerCase(timeStr[Len(timeStr)]) \in {"s", "m", "h"}

\* a default lookup that ignores the value stored for the guild
DefaultForIgnoresStored(dt, guildId) == DEFAULT_TIMER_DURATION

\* defaultTimes.get(guildId) || 5 * 60 * 1000
DefaultFor(dt, guildId) ==
    IF guildId \in DOMAIN dt /\ dt[guildId] # 0 THEN dt[guildId]
    ELSE DEFAULT_TIMER_DURATION

\* a parseTime whose unit letter is matched case-sensitively
parseTimeCaseSensitive(timeStr, dt, guildId) ==
    IF timeStr = << >> THEN <<DefaultFor(dt, guildId)>>
    ELSE IF ~MatchesTime(timeStr) \/ timeStr[Len(timeStr)] \notin {"s", "m", "h"} THEN << >>
    ELSE LET value == parseInt(SubSeq(timeStr, 1, Len(timeStr) - 1))
             unit == timeStr[Len(timeStr)]
         IN CASE unit = "s" -> <<value * 1000>>
              [] unit = "m" -> <<value * 60 * 1000>>
              [] unit = "h" -> <<value * 60 * 60 * 1000>>

\* the result is <<ms>>, or << >> for null
parseTime(timeStr, dt, guildId) ==
    IF timeStr = << >> THEN <<DefaultFor(dt, guildId)>>
    ELSE IF ~MatchesTime(timeStr) THEN << >>
    ELSE LET value == parseInt(SubSeq(timeStr, 1, Len(timeStr) - 1))
             unit == toLowerCase(timeStr[Len(timeStr)])
         IN CASE unit = "s" -> <<value * 1000>>
              [] unit = "m" -> <<value * 60 * 1000>>
              [] unit = "h" -> <<value * 60 * 60 * 1000>>

\* JavaScript ToNumber of a parseTime result (null compares as 0)
ToNumber(r) == IF r = << >> THEN 0 ELSE r[1]

----------------------------------------------------------------------------
(* Timer objects and the registry.  S is a record of the four maps that   *)
(* the registry functions read and write:                                  *)
(*   S.activeTimers, S.timers, S.timerMessages, S.timerUpdateThrottle      *)

Registry == [activeTimers |-> activeTimers, timers |-> timers,
             timerMessages |-> timerMessages,
             timerUpdateThrottle |-> timerUpdateThrottle]

\* canCreateTimer with both limits compared by > instead of >=
canCreateTimerOffByOne(S, guildId) ==
    IF Cardinality(DOMAIN S.activeTimers) > MAX_TOTAL_TIMERS THEN FALSE
    ELSE LET guildTimerCount ==
                 Cardinality({c \in DOMAIN S.activeTimers :
                                 S.timers[S.activeTimers[c]].guildId = guildId})
         IN  ~(guildTimerCount > MAX_TIMERS_PER_GUILD)

\* canCreateTimer without the per-guild count
canCreateTimerGlobalOnly(S, guildId) ==
    ~(Cardinality(DOMAIN S.activeTimers) >= MAX_TOTAL_TIMERS)

canCreateTimer(S, guildId) ==
    IF Cardinality(DOMAIN S.activeTimers) >= MAX_TOTAL_TIMERS THEN FALSE
    ELSE LET guildTimerCount ==
                 Cardinality({c \in DOMAIN S.activeTimers :
                                 S.timers[S.activeTimers[c]].guildId = guildId})
         IN  ~(guildTimerCount >= MAX_TIMERS_PER_GUILD)

\* clearTimeout(timer.timeoutId); clearTimeout(timer.warningTimeoutId);
\* clearInterval(timer.updateIntervalId)
ClearAllHandles(timer) ==
    [timer EXCEPT !.timeoutId = {}, !.warningTimeoutId = {},
                  !.updateIntervalId = {}]

\* safeCleanupTimer that leaves the update interval of the old timer running
safeCleanupTimerKeepsInterval(S, tid) ==
    [S EXCEPT !.timers[tid].timeoutId = {},
              !.timers[tid].warningTimeoutId = {},
              !.timerUpdateThrottle = MapDelete(@, S.timers[tid].channelId)]

safeCleanupTimer(S, tid) ==
    [S EXCEPT !.timers[tid] = ClearAllHandles(@),
              !.timerUpdateThrottle = MapDelete(@, S.timers[tid].channelId)]

\* the handle of setInterval(..., 1000) called at time t: its callback runs
\* every `every` ms, the next time not before `next`
setInterval(t) ==
    [every |-> TIMER_UPDATE_INTERVAL, next |-> t + TIMER_UPDATE_INTERVAL]

\* scheduleWarning that arms the warning without looking at the duration or
\* at the time left until the warning
scheduleWarningUnguarded(timer, t) ==
    LET cleared == [timer EXCEPT !.warningTimeoutId = {}]
        warningTime == timer.warningTime
    IN  [cleared EXCEPT !.warningTimeoutId = {[due |-> Max(t, warningTime)]}]

\* scheduleWarning that arms the warning whenever the timer is longer than a minute
scheduleWarningAnyTime(timer, t) ==
    LET cleared == [timer EXCEPT !.warningTimeoutId = {}]
        warningTime == timer.warningTime
    IN  IF timer.duration > WARNING_TIME_BEFORE_END
        THEN [cleared EXCEPT !.warningTimeoutId = {[due |-> Max(t, warningTime)]}]
        ELSE cleared

scheduleWarning(timer, t) ==
    LET cleared == [timer EXCEPT !.warningTimeoutId = {}]
        warningTime == timer.warningTime
        remainingToWarning == warningTime - t
    IN  IF remainingToWarning > 0 /\ timer.duration > WARNING_TIME_BEFORE_END
        THEN [cleared EXCEPT !.warningTimeoutId = {[due |-> t + remainingToWarning]}]
        ELSE cleared

\* the smallest identity no live timer object has
FreshId(tm) ==
    CHOOSE i \in 1..(Cardinality(DOMAIN tm) + 1) :
        /\ i \notin DOMAIN tm
        /\ \A j \in 1..(i - 1) : j \in DOMAIN tm

\* the timer object startTimer builds, with its three handles armed
NewTimer(channelId, t, duration, message) ==
    LET startTime == t
        endTime == startTime + duration
        timer == [channelId |-> channelId,
                  guildId |-> GuildOf(channelId),
                  startTime |-> startTime,
                  endTime |-> endTime,
                  duration |-> duration,
                  message |-> message,
                  timeoutId |-> {},
                  updateIntervalId |-> {setInterval(t)},
                  isPaused |-> FALSE,
                  warningTime |-> endTime - WARNING_TIME_BEFORE_END,
                  warningTimeoutId |-> {},
                  stray |-> {}]
    IN  [scheduleWarning(timer, t) EXCEPT
            !.timeoutId = {[due |-> t + duration, from |-> "start"]}]

\* the result is [st |-> the maps afterwards, ret |-> <<tid>> or << >> for null]
startTimer(S, t, channelId, duration, message, timerMessage) ==
    IF ~canCreateTimer(S, GuildOf(channelId)) THEN [st |-> S, ret |-> << >>]
    ELSE LET S1 == IF channelId \in DOMAIN S.activeTimers
                   THEN safeCleanupTimer(S, S.activeTimers[channelId])
                   ELSE S
             tid == FreshId(S.timers)
         IN  [st |-> [S1 EXCEPT
                        !.timers = MapSet(@, tid, NewTimer(channelId, t, duration, message)),
                        !.activeTimers = MapSet(@, channelId, tid),
                        !.timerMessages = IF timerMessage THEN @ \cup {channelId} ELSE @],
              ret |-> <<tid>>]

\* stopTimer that leaves the warning timeout of the timer armed
stopTimerKeepsWarning(S, t, channelId) ==
    IF channelId \notin DOMAIN S.activeTimers THEN [st |-> S, ret |-> << >>]
    ELSE LET tid == S.activeTimers[channelId]
             timer == S.timers[tid]
             remainingTime == timer.endTime - t
             timerInfo == [message |-> timer.message,
                           duration |-> timer.duration,
                           remainingTime |-> Max(0, remainingTime),
                           guildId |-> timer.guildId]
         IN  [st |-> [S EXCEPT
                        !.timers[tid].timeoutId = {},
                        !.timers[tid].updateIntervalId = {},
                        !.activeTimers = MapDelete(@, channelId),
                        !.timerUpdateThrottle = MapDelete(@, channelId),
                        !.timerMessages = @ \ {channelId}],
              ret |-> <<timerInfo>>]

\* the result is [st |-> the maps afterwards, ret |-> <<timerInfo>> or << >> for false]
stopTimer(S, t, channelId) ==
    IF channelId \notin DOMAIN S.activeTimers THEN [st |-> S, ret |-> << >>]
    ELSE LET tid == S.activeTimers[channelId]
             timer == S.timers[tid]
             remainingTime == timer.endTime - t
             timerInfo == [message |-> timer.message,
                           duration |-> timer.duration,
                           remainingTime |-> Max(0, remainingTime),
                           guildId |-> timer.guildId]
         IN  [st |-> [S EXCEPT
                        !.timers[tid] = ClearAllHandles(@),
                        !.activeTimers = MapDelete(@, channelId),
                        !.timerUpdateThrottle = MapDelete(@, channelId),
                        !.timerMessages = @ \ {channelId}],
              ret |-> <<timerInfo>>]

\* clears the interval and the expiry timeout, not the warning timeout
stopAllTimersInChannel(S, channelId) ==
    IF channelId \notin DOMAIN S.activeTimers THEN S
    ELSE LET tid == S.activeTimers[channelId]
         IN  [S EXCEPT !.timers[tid].updateIntervalId = {},
                       !.timers[tid].timeoutId = {},
                       !.activeTimers = MapDelete(@, channelId)]

\* the pre-clear the start commands apply to the channel's timer before
\* they await their reply
PreClear(S, channelId) ==
    IF channelId \notin DOMAIN S.activeTimers THEN S
    ELSE LET tid == S.activeTimers[channelId]
         IN  [S EXCEPT !.timers[tid].timeoutId = {},
                       !.timers[tid].warningTimeoutId = {}]

----------------------------------------------------------------------------
(* The two branches of the 'timer_pause' button, on the timer object *)

StrayOf(kind, handles) ==
    {[kind |-> kind, due |-> IF kind = "interval" THEN 0 ELSE h.due] : h \in handles}

\* pauseTimer that leaves the update interval running
pauseTimerKeepsInterval(timer, t) ==
    LET remainingTime == timer.endTime - t
        paused == MapSet([timer EXCEPT !.isPaused = TRUE],
                         "pausedRemainingTime", Max(0, remainingTime))
    IN  [paused EXCEPT !.timeoutId = {}, !.warningTimeoutId = {}]

\* pauseTimer that leaves the expiry timeout armed
pauseTimerKeepsTimeout(timer, t) ==
    LET remainingTime == timer.endTime - t
        paused == MapSet([timer EXCEPT !.isPaused = TRUE],
                         "pausedRemainingTime", Max(0, remainingTime))
    IN  [paused EXCEPT !.updateIntervalId = {}, !.warningTimeoutId = {}]

\* pauseTimer that stores the whole duration as the time left
pauseTimerStoresDuration(timer, t) ==
    LET paused == MapSet([timer EXCEPT !.isPaused = TRUE],
                         "pausedRemainingTime", timer.duration)
    IN  ClearAllHandles(paused)

\* the pause branch, applied to the channel's timer object at time t
pauseTimer(timer, t) ==
    LET remainingTime == timer.endTime - t
        paused == MapSet([timer EXCEPT !.isPaused = TRUE],
                         "pausedRemainingTime", Max(0, remainingTime))
    IN  ClearAllHandles(paused)

\* timer.pausedRemainingTime || 0
PausedRemainingOrZero(timer) ==
    IF "pausedRemainingTime" \in DOMAIN timer THEN timer.pausedRemainingTime ELSE 0

\* resumeTimer that leaves pausedRemainingTime on the timer object
resumeTimerKeepsPausedRemaining(timer, t) ==
    LET remainingTime == PausedRemainingOrZero(timer)
        t1 == [timer EXCEPT !.isPaused = FALSE,
                            !.endTime = t + remainingTime,
                            !.warningTime = (t + remainingTime) - WARNING_TIME_BEFORE_END]
        t3 == [t1 EXCEPT !.stray = @ \cup StrayOf("interval", t1.updateIntervalId)
                                     \cup StrayOf("timeout", t1.timeoutId),
                         !.updateIntervalId = {setInterval(t)},
                         !.timeoutId = {[due |-> t + remainingTime, from |-> "resume"]}]
    IN  scheduleWarning(t3, t)

\* resumeTimer that keeps the warningTime computed when the timer was started
resumeTimerKeepsWarningTime(timer, t) ==
    LET remainingTime == PausedRemainingOrZero(timer)
        t1 == [timer EXCEPT !.isPaused = FALSE,
                            !.endTime = t + remainingTime]
        t2 == MapDelete(t1, "pausedRemainingTime")
        t3 == [t2 EXCEPT !.stray = @ \cup StrayOf("interval", t2.updateIntervalId)
                                     \cup StrayOf("timeout", t2.timeoutId),
                         !.updateIntervalId = {setInterval(t)},
                         !.timeoutId = {[due |-> t + remainingTime, from |-> "resume"]}]
    IN  scheduleWarning(t3, t)

\* resumeTimer that re-arms against the end time the timer had when paused
resumeTimerKeepsEndTime(timer, t) ==
    LET t1 == [timer EXCEPT !.isPaused = FALSE]
        t2 == MapDelete(t1, "pausedRemainingTime")
        t3 == [t2 EXCEPT !.updateIntervalId = {setInterval(t)},
                         !.timeoutId = {[due |-> Max(t, timer.endTime), from |-> "resume"]}]
    IN  scheduleWarning(t3, t)

\* resumeTimer that sets endTime to the remaining time alone
resumeTimerDropsNow(timer, t) ==
    LET remainingTime == PausedRemainingOrZero(timer)
        t1 == [timer EXCEPT !.isPaused = FALSE,
                            !.endTime = remainingTime,
                            !.warningTime = (t + remainingTime) - WARNING_TIME_BEFORE_END]
        t2 == MapDelete(t1, "pausedRemainingTime")
        t3 == [t2 EXCEPT !.stray = @ \cup StrayOf("interval", t2.updateIntervalId)
                                     \cup StrayOf("timeout", t2.timeoutId),
                         !.updateIntervalId = {setInterval(t)},
                         !.timeoutId = {[due |-> t + remainingTime, from |-> "resume"]}]
    IN  scheduleWarning(t3, t)

\* resumeTimer that restarts the timer's clock: startTime becomes the resume time
resumeTimerResetsStartTime(timer, t) ==
    LET remainingTime == PausedRemainingOrZero(timer)
        t1 == [timer EXCEPT !.isPaused = FALSE,
                            !.startTime = t,
                            !.endTime = t + remainingTime,
                            !.warningTime = (t + remainingTime) - WARNING_TIME_BEFORE_END]
        t2 == MapDelete(t1, "pausedRemainingTime")
        t3 == [t2 EXCEPT !.stray = @ \cup StrayOf("interval", t2.updateIntervalId)
                                     \cup StrayOf("timeout", t2.timeoutId),
                         !.updateIntervalId = {setInterval(t)},
                         !.timeoutId = {[due |-> t + remainingTime, from |-> "resume"]}]
    IN  scheduleWarning(t3, t)

\* the resume branch for remainingTime > 0, applied at time t; a handle
\* property overwritten while its handle is armed leaves that handle armed
resumeTimer(timer, t) ==
    LET remainingTime == PausedRemainingOrZero(timer)
        t1 == [timer EXCEPT !.isPaused = FALSE,
                            !.endTime = t + remainingTime,
                            !.warningTime = (t + remainingTime) - WARNING_TIME_BEFORE_END]
        t2 == MapDelete(t1, "pausedRemainingTime")
        t3 == [t2 EXCEPT !.stray = @ \cup StrayOf("interval", t2.updateIntervalId)
                                     \cup StrayOf("timeout", t2.timeoutId),
                         !.updateIntervalId = {setInterval(t)},
                         !.timeoutId = {[due |-> t + remainingTime, from |-> "resume"]}]
    IN  scheduleWarning(t3, t)

----------------------------------------------------------------------------
(* Which timer objects are still referred to: by the registry, by an      *)
(* armed handle (whose callback closes over the object) or by a suspended *)
(* expiry callback.  The others are garbage and leave the model.          *)

HasArmedHandle(timer) ==
    \/ timer.timeoutId # {}
    \/ timer.warningTimeoutId # {}
    \/ timer.updateIntervalId # {}
    \/ timer.stray # {}

Resident(at) == {at[c] : c \in DOMAIN at}

Live(tm, at, exp) ==
    LET held == Resident(at) \cup {e.tid : e \in exp}
    IN  held \cup {tid \in (DOMAIN tm) \ held : HasArmedHandle(tm[tid])}

Collect(tm, at, exp) == [tid \in Live(tm, at, exp) |-> tm[tid]]

Detached == (DOMAIN timers) \ Resident(activeTimers)

\* assigns the maps of S, dropping the unreferenced timer objects
Commit(S, exp) ==
    /\ activeTimers' = S.activeTimers
    /\ timers' = Collect(S.timers, S.activeTimers, exp)
    /\ timerMessages' = S.timerMessages
    /\ timerUpdateThrottle' = S.timerUpdateThrottle
    /\ expiring' = exp

----------------------------------------------------------------------------
(* Initial state.  The maps are empty after construction (Init).  InitAt  *)
(* is the program with timers already resident on the channels bg = 2..n: *)
(* each a 24 h timer that was started and then paused at BootTime, its    *)
(* status message no longer tracked.                                      *)

NoResult == [op |-> "none", ch |-> 0, status |-> "none", remaining |-> 0]

\* the identity of the timer object that is on channel c from the start
BackgroundId(c) == MAX_TOTAL_TIMERS + c

InitAt(bg) ==
    /\ now = BootTime
    /\ activeTimers = [c \in bg |-> BackgroundId(c)]
    /\ timers = [i \in {BackgroundId(c) : c \in bg} |->
                    pauseTimer(NewTimer(i - MAX_TOTAL_TIMERS, BootTime, MAX_TIMER_DURATION,
                                        "Timer (default)"), BootTime)]
    /\ defaultTimes = << >>
    /\ timerMessages = {}
    /\ timerUpdateThrottle = << >>
    /\ pending = {}
    /\ expiring = {}
    /\ events = {}
    /\ result = NoResult
    /\ lastPush = << >>
    /\ voiceConnections = << >>
    /\ connections = << >>
    /\ joining = {}
    /\ microphoneUnmuteHistory = << >>
    /\ userCooldowns = << >>
    /\ ran = [tid \in DOMAIN timers |-> 0]
    /\ warned = {}

Init == InitAt({})

Outcome(op, ch, status, remaining) ==
    [op |-> op, ch |-> ch, status |-> status, remaining |-> remaining]

\* a start handler may suspend only while the model's bounds allow it; the
\* bound on detached timer objects counts those created during the run
MayBegin ==
    /\ Cardinality(pending) < MaxPending
    /\ Cardinality({tid \in Detached : tid <= MAX_TOTAL_TIMERS}) < MaxDetached

Suspend(kind, channelId, duration, message) ==
    /\ pending' = pending \cup {[kind |-> kind, ch |-> channelId,
                                 duration |-> duration, message |-> message]}
    /\ Commit(PreClear(Registry, channelId), expiring)
    /\ result' = Outcome(kind, channelId, "replying", 0)

Reject(op, channelId, status) ==
    /\ result' = Outcome(op, channelId, status, 0)
    /\ UNCHANGED <<activeTimers, timers, timerMessages, timerUpdateThrottle,
                   pending, expiring>>

----------------------------------------------------------------------------
(* '!cs' message command *)

CsBegin(channelId, args) ==
    /\ MayBegin
    /\ LET duration == parseTime(args, defaultTimes, GuildOf(channelId))
       IN  IF duration = << >> THEN Reject("cs", channelId, "invalid_format")
           ELSE IF duration[1] < MIN_TIMER_DURATION THEN Reject("cs", channelId, "too_short")
           ELSE IF duration[1] > MAX_TIMER_DURATION THEN Reject("cs", channelId, "too_long")
           ELSE Suspend("cs", channelId, duration[1],
                        IF args # << >> THEN "Timer: args" ELSE "Timer (default)")
    /\ events' = {}
    /\ UNCHANGED <<lastPush, now, defaultTimes>>
    /\ UNCHANGED voiceVars
    /\ UNCHANGED guardVars
    /\ ran' = RunTime /\ warned' = Warned

CsFinish(p) ==
    /\ p \in pending /\ p.kind = "cs"
    /\ LET r == startTimer(Registry, now, p.ch, p.duration, p.message, TRUE)
       IN  /\ Commit(r.st, expiring)
           /\ result' = IF r.ret = << >>
                        THEN Outcome("cs", p.ch, "limit_per_server", 0)
                        ELSE Outcome("cs", p.ch, "started", p.duration)
    /\ pending' = pending \ {p}
    /\ events' = {}
    /\ UNCHANGED <<lastPush, now, defaultTimes>>
    /\ UNCHANGED voiceVars
    /\ UNCHANGED guardVars
    /\ ran' = RunTime /\ warned' = Warned

(* '/timer' slash command *)

SlashBegin(channelId, durationStr) ==
    /\ MayBegin
    /\ LET duration == IF durationStr # << >>
                       THEN parseTime(durationStr, defaultTimes, GuildOf(channelId))
                       ELSE <<DefaultFor(defaultTimes, GuildOf(channelId))>>
       IN  IF ToNumber(duration) <= 0 THEN Reject("timer", channelId, "invalid_format")
           ELSE Suspend("timer", channelId, duration[1],
                        IF durationStr # << >> THEN "Timer (duration)" ELSE "Timer (default)")
    /\ events' = {}
    /\ UNCHANGED <<lastPush, now, defaultTimes>>
    /\ UNCHANGED voiceVars
    /\ UNCHANGED guardVars
    /\ ran' = RunTime /\ warned' = Warned

SlashFinish(p) ==
    /\ p \in pending /\ p.kind = "timer"
    /\ LET S1 == [Registry EXCEPT !.timerMessages = @ \cup {p.ch}]
           r == startTimer(S1, now, p.ch, p.duration, p.message, TRUE)
       IN  /\ Commit(r.st, expiring)
           /\ result' = IF r.ret = << >>
                        THEN Outcome("timer", p.ch, "not_reported", 0)
                        ELSE Outcome("timer", p.ch, "started", p.duration)
    /\ pending' = pending \ {p}
    /\ events' = {}
    /\ UNCHANGED <<lastPush, now, defaultTimes>>
    /\ UNCHANGED voiceVars
    /\ UNCHANGED guardVars
    /\ ran' = RunTime /\ warned' = Warned

(* 'timer_start' button *)

ButtonBegin(channelId) ==
    /\ MayBegin
    /\ Suspend("timer_start", channelId,
               DefaultFor(defaultTimes, GuildOf(channelId)), "Timer (default)")
    /\ events' = {}
    /\ UNCHANGED <<lastPush, now, defaultTimes>>
    /\ UNCHANGED voiceVars
    /\ UNCHANGED guardVars
    /\ ran' = RunTime /\ warned' = Warned

ButtonFinish(p) ==
    /\ p \in pending /\ p.kind = "timer_start"
    /\ LET r == startTimer(Registry, now, p.ch, p.duration, p.message, TRUE)
       IN  /\ Commit(r.st, expiring)
           /\ result' = IF r.ret = << >>
                        THEN Outcome("timer_start", p.ch, "limit_per_server", 0)
                        ELSE Outcome("timer_start", p.ch, "started", p.duration)
    /\ pending' = pending \ {p}
    /\ events' = {}
    /\ UNCHANGED <<lastPush, now, defaultTimes>>
    /\ UNCHANGED voiceVars
    /\ UNCHANGED guardVars
    /\ ran' = RunTime /\ warned' = Warned

\* the reply awaited by a start handler is rejected: the handler ends there
StartAbort(p) ==
    /\ p \in pending
    /\ pending' = pending \ {p}
    /\ result' = Outcome(p.kind, p.ch, "reply_failed", 0)
    /\ events' = {}
    /\ UNCHANGED <<lastPush, now, activeTimers, timers, defaultTimes, timerMessages,
                   timerUpdateThrottle, expiring>>
    /\ UNCHANGED voiceVars
    /\ UNCHANGED guardVars
    /\ ran' = RunTime /\ warned' = Warned

----------------------------------------------------------------------------
(* 'timer_pause' button: pauses a running timer, resumes a paused one *)

\* a timer_pause handler that resumes a paused timer whatever time it has left
PauseToggleResumesExpired(channelId) ==
    /\ IF channelId \notin DOMAIN activeTimers
       THEN Reject("timer_pause", channelId, "no_active_timer")
       ELSE LET tid == activeTimers[channelId]
                timer == timers[tid]
            IN  IF timer.isPaused
                THEN /\ Commit([Registry EXCEPT !.timers[tid] = resumeTimer(timer, now)],
                               expiring)
                     /\ result' = Outcome("timer_pause", channelId, "resumed",
                                          PausedRemainingOrZero(timer))
                     /\ UNCHANGED pending
                ELSE /\ Commit([Registry EXCEPT !.timers[tid] = pauseTimer(timer, now)],
                               expiring)
                     /\ result' = Outcome("timer_pause", channelId, "paused",
                                          timer.endTime - now)
                     /\ UNCHANGED pending
    /\ events' = {}
    /\ UNCHANGED <<lastPush, now, defaultTimes>>
    /\ UNCHANGED voiceVars
    /\ UNCHANGED guardVars
    /\ ran' = RunTime /\ warned' = Warned

\* a timer_pause handler whose pause branch also runs on a paused timer
PauseToggleAlwaysPauses(channelId) ==
    /\ IF channelId \notin DOMAIN activeTimers
       THEN Reject("timer_pause", channelId, "no_active_timer")
       ELSE LET tid == activeTimers[channelId]
                timer == timers[tid]
            IN  /\ Commit([Registry EXCEPT !.timers[tid] = pauseTimer(timer, now)],
                          expiring)
                /\ result' = Outcome("timer_pause", channelId, "paused",
                                     timer.endTime - now)
                /\ UNCHANGED pending
    /\ events' = {}
    /\ UNCHANGED <<lastPush, now, defaultTimes>>
    /\ UNCHANGED voiceVars
    /\ UNCHANGED guardVars
    /\ ran' = RunTime /\ warned' = Warned

PauseToggle(channelId) ==
    /\ IF channelId \notin DOMAIN activeTimers
       THEN Reject("timer_pause", channelId, "no_active_timer")
       ELSE LET tid == activeTimers[channelId]
                timer == timers[tid]
            IN  IF timer.isPaused
                THEN IF PausedRemainingOrZero(timer) <= 0
                     THEN /\ Commit([Registry EXCEPT !.activeTimers = MapDelete(@, channelId)],
                                    expiring)
                          /\ result' = Outcome("timer_pause", channelId, "expired", 0)
                          /\ UNCHANGED pending
                     ELSE /\ Commit([Registry EXCEPT !.timers[tid] = resumeTimer(timer, now)],
                                    expiring)
                          /\ result' = Outcome("timer_pause", channelId, "resumed",
                                               PausedRemainingOrZero(timer))
                          /\ UNCHANGED pending
                ELSE /\ Commit([Registry EXCEPT !.timers[tid] = pauseTimer(timer, now)],
                               expiring)
                     /\ result' = Outcome("timer_pause", channelId, "paused",
                                          timer.endTime - now)
                     /\ UNCHANGED pending
    /\ events' = {}
    /\ UNCHANGED <<lastPush, now, defaultTimes>>
    /\ UNCHANGED voiceVars
    /\ UNCHANGED guardVars
    /\ ran' = RunTime /\ warned' = Warned

----------------------------------------------------------------------------
(* '!stop' and the 'timer_stop' button *)

StopCmd(channelId) ==
    /\ LET r == stopTimer(Registry, now, channelId)
       IN  /\ Commit(r.st, expiring)
           /\ result' = IF r.ret = << >>
                        THEN Outcome("stop", channelId, "no_active_timer", 0)
                        ELSE Outcome("stop", channelId, "stopped", r.ret[1].remainingTime)
    /\ events' = {}
    /\ UNCHANGED <<lastPush, now, defaultTimes, pending>>
    /\ UNCHANGED voiceVars
    /\ UNCHANGED guardVars
    /\ ran' = RunTime /\ warned' = Warned

(* '/clear-channel' *)

ClearChannel(channelId) ==
    /\ Commit(stopAllTimersInChannel(Registry, channelId), expiring)
    /\ result' = Outcome("clear-channel", channelId, "cleared", 0)
    /\ events' = {}
    /\ UNCHANGED <<lastPush, now, defaultTimes, pending>>
    /\ UNCHANGED voiceVars
    /\ UNCHANGED guardVars
    /\ ran' = RunTime /\ warned' = Warned

(* 'confirm_clear_messages' button: stopTimer on every timer of the guild *)

RECURSIVE StopEach(_, _, _)
StopEach(S, t, chans) ==
    IF chans = {} THEN S
    ELSE LET c == CHOOSE x \in chans : TRUE
         IN  StopEach(stopTimer(S, t, c).st, t, chans \ {c})

\* confirm_clear_messages that stops the timers of every guild
ConfirmClearEveryGuild(guildId) ==
    /\ Commit(StopEach(Registry, now, DOMAIN activeTimers), expiring)
    /\ result' = Outcome("confirm_clear_messages", 0, "cleared", 0)
    /\ events' = {}
    /\ UNCHANGED <<lastPush, now, defaultTimes, pending>>
    /\ UNCHANGED voiceVars
    /\ UNCHANGED guardVars
    /\ ran' = RunTime /\ warned' = Warned

ConfirmClear(guildId) ==
    /\ LET chans == {c \in DOMAIN activeTimers : timers[activeTimers[c]].guildId = guildId}
       IN  Commit(StopEach(Registry, now, chans), expiring)
    /\ result' = Outcome("confirm_clear_messages", 0, "cleared", 0)
    /\ events' = {}
    /\ UNCHANGED <<lastPush, now, defaultTimes, pending>>
    /\ UNCHANGED voiceVars
    /\ UNCHANGED guardVars
    /\ ran' = RunTime /\ warned' = Warned

(* '!status' *)

\* a '!status' that drops the channel's timer when it finds no time left
StatusDropsExpired(channelId) ==
    /\ IF channelId \in DOMAIN activeTimers
          /\ timers[activeTimers[channelId]].endTime - now <= 0
       THEN /\ Commit([Registry EXCEPT !.activeTimers = MapDelete(@, channelId)], expiring)
            /\ result' = Outcome("status", channelId, "no_active_timer", 0)
       ELSE /\ result' = IF channelId \in DOMAIN activeTimers
                         THEN Outcome("status", channelId, "active",
                                      timers[activeTimers[channelId]].endTime - now)
                         ELSE Outcome("status", channelId, "no_active_timer", 0)
            /\ UNCHANGED <<activeTimers, timers, timerMessages, timerUpdateThrottle,
                           expiring>>
    /\ events' = {}
    /\ UNCHANGED <<lastPush, now, defaultTimes, pending>>
    /\ UNCHANGED voiceVars
    /\ UNCHANGED guardVars
    /\ ran' = RunTime /\ warned' = Warned

Status(channelId) ==
    /\ result' = IF channelId \in DOMAIN activeTimers
                 THEN Outcome("status", channelId, "active",
                              timers[activeTimers[channelId]].endTime - now)
                 ELSE Outcome("status", channelId, "no_active_timer", 0)
    /\ events' = {}
    /\ UNCHANGED <<lastPush, now, activeTimers, timers, defaultTimes, timerMessages,
                   timerUpdateThrottle, pending, expiring>>
    /\ UNCHANGED voiceVars
    /\ UNCHANGED guardVars
    /\ ran' = RunTime /\ warned' = Warned

----------------------------------------------------------------------------
(* Default duration of a guild *)

\* '!set cs <duration>'
SetDefaultCs(guildId, args) ==
    /\ LET duration == parseTime(args, defaultTimes, guildId)
       IN  IF duration = << >> \/ duration[1] < MIN_TIMER_DURATION
              \/ duration[1] > MAX_TIMER_DURATION
           THEN /\ defaultTimes' = defaultTimes
                /\ result' = Outcome("set", 0, "rejected", 0)
           ELSE /\ defaultTimes' = MapSet(defaultTimes, guildId, duration[1])
                /\ result' = Outcome("set", 0, "default_set", duration[1])
    /\ events' = {}
    /\ UNCHANGED <<lastPush, now, activeTimers, timers, timerMessages, timerUpdateThrottle,
                   pending, expiring>>
    /\ UNCHANGED voiceVars
    /\ UNCHANGED guardVars
    /\ ran' = RunTime /\ warned' = Warned

\* '/set-default <duration>'
SetDefaultSlash(guildId, timeStr) ==
    /\ LET duration == parseTime(timeStr, defaultTimes, guildId)
       IN  IF ToNumber(duration) <= 0
           THEN /\ defaultTimes' = defaultTimes
                /\ result' = Outcome("set-default", 0, "rejected", 0)
           ELSE /\ defaultTimes' = MapSet(defaultTimes, guildId, duration[1])
                /\ result' = Outcome("set-default", 0, "default_set", duration[1])
    /\ events' = {}
    /\ UNCHANGED <<lastPush, now, activeTimers, timers, timerMessages, timerUpdateThrottle,
                   pending, expiring>>
    /\ UNCHANGED voiceVars
    /\ UNCHANGED guardVars
    /\ ran' = RunTime /\ warned' = Warned

----------------------------------------------------------------------------
(* The clock and the scheduled callbacks *)

Timeouts(tm) ==
    UNION {tm[tid].timeoutId \cup tm[tid].warningTimeoutId : tid \in DOMAIN tm}

Dues == {h.due : h \in Timeouts(timers)}

\* time passes; a timeout fires when its delay has elapsed, so the clock
\* does not pass the earliest one that is armed.  The clock is coarse: a
\* suspended handler or callback is resumed (or fails) before it moves.
Advance(d, until) ==
    /\ d > 0
    /\ pending = {} /\ expiring = {}
    /\ now + d <= until
    /\ \A due \in Dues : now + d <= due
    /\ now' = now + d
    /\ lastPush' = [c \in {x \in DOMAIN lastPush : (now + d) - lastPush[x] < UPDATE_THROTTLE_MS}
                        |-> lastPush[c]]
    /\ events' = {}
    /\ result' = NoResult
    /\ UNCHANGED <<activeTimers, timers, defaultTimes, timerMessages,
                   timerUpdateThrottle, pending, expiring>>
    /\ UNCHANGED voiceVars
    /\ UNCHANGED guardVars
    /\ ran' = RunTime /\ warned' = Warned

Event(type, channelId, tid) == [type |-> type, ch |-> channelId, tid |-> tid]

\* the expiry timeout fires: the callback calls channel.send and suspends
ExpiryFire(tid) ==
    /\ tid \in DOMAIN timers
    /\ \E h \in timers[tid].timeoutId :
          /\ h.due <= now
          /\ expiring' = expiring \cup {[tid |-> tid, ch |-> timers[tid].channelId,
                                         from |-> h.from]}
    /\ timers' = [timers EXCEPT ![tid].timeoutId = {}]
    /\ events' = {Event("finished", timers[tid].channelId, tid)}
    /\ result' = NoResult
    /\ UNCHANGED <<lastPush, now, activeTimers, defaultTimes, timerMessages,
                   timerUpdateThrottle, pending>>
    /\ UNCHANGED voiceVars
    /\ UNCHANGED guardVars
    /\ ran' = RunTime /\ warned' = Warned

\* what the expiry callback does once its awaits have returned
ExpiryCleanup(S, e) ==
    [S EXCEPT !.activeTimers = MapDelete(@, e.ch),
              !.timerUpdateThrottle = IF e.from = "start" THEN MapDelete(@, e.ch) ELSE @,
              !.timerMessages = @ \ {e.ch}]

\* the send returned; the end sound plays when the bot is in a voice channel
ExpiryFinish(e, inVoice) ==
    /\ e \in expiring
    /\ Commit(ExpiryCleanup(Registry, e), expiring \ {e})
    /\ events' = IF inVoice THEN {Event("end_sound", e.ch, e.tid)} ELSE {}
    /\ result' = NoResult
    /\ UNCHANGED <<lastPush, now, defaultTimes, pending>>
    /\ UNCHANGED voiceVars
    /\ UNCHANGED guardVars
    /\ ran' = RunTime /\ warned' = Warned

\* the send was rejected: the callback ends at the await
ExpirySendFail(e) ==
    /\ e \in expiring
    /\ Commit(Registry, expiring \ {e})
    /\ events' = {}
    /\ result' = NoResult
    /\ UNCHANGED <<lastPush, now, defaultTimes, pending>>
    /\ UNCHANGED voiceVars
    /\ UNCHANGED guardVars
    /\ ran' = RunTime /\ warned' = Warned

\* the warning timeout fires
WarningFire(tid) ==
    /\ tid \in DOMAIN timers
    /\ \E h \in timers[tid].warningTimeoutId : h.due <= now
    /\ Commit([Registry EXCEPT !.timers[tid].warningTimeoutId = {}], expiring)
    /\ events' = {Event("warning_sound", timers[tid].channelId, tid)}
    /\ result' = NoResult
    /\ UNCHANGED <<lastPush, now, defaultTimes, pending>>
    /\ UNCHANGED voiceVars
    /\ UNCHANGED guardVars
    /\ ran' = RunTime /\ warned' = Warned

\* an updateTimerMessage that keeps the message of a failed edit
updateTimerMessageKeepsTarget(S, t, channelId, timer, editOk) ==
    IF channelId \notin S.timerMessages THEN [st |-> S, pushed |-> FALSE]
    ELSE LET lastUpdate == IF channelId \in DOMAIN S.timerUpdateThrottle
                           THEN S.timerUpdateThrottle[channelId] ELSE 0
         IN  IF t - lastUpdate < UPDATE_THROTTLE_MS THEN [st |-> S, pushed |-> FALSE]
             ELSE LET S1 == [S EXCEPT !.timerUpdateThrottle = MapSet(@, channelId, t)]
                      remaining == IF timer.isPaused /\ PausedRemainingOrZero(timer) # 0
                                   THEN timer.pausedRemainingTime
                                   ELSE timer.endTime - t
                  IN  IF remaining <= 0
                      THEN [st |-> [S1 EXCEPT !.timerUpdateThrottle = MapDelete(@, channelId)],
                            pushed |-> FALSE]
                      ELSE IF timer.isPaused THEN [st |-> S1, pushed |-> FALSE]
                      ELSE IF editOk THEN [st |-> S1, pushed |-> TRUE]
                      ELSE [st |-> S1, pushed |-> FALSE]

\* an updateTimerMessage that removes the channel's timer when no time is left
updateTimerMessageRemovesExpired(S, t, channelId, timer, editOk) ==
    IF channelId \notin S.timerMessages THEN [st |-> S, pushed |-> FALSE]
    ELSE LET lastUpdate == IF channelId \in DOMAIN S.timerUpdateThrottle
                           THEN S.timerUpdateThrottle[channelId] ELSE 0
         IN  IF t - lastUpdate < UPDATE_THROTTLE_MS THEN [st |-> S, pushed |-> FALSE]
             ELSE LET S1 == [S EXCEPT !.timerUpdateThrottle = MapSet(@, channelId, t)]
                      remaining == IF timer.isPaused /\ PausedRemainingOrZero(timer) # 0
                                   THEN timer.pausedRemainingTime
                                   ELSE timer.endTime - t
                  IN  IF remaining <= 0
                      THEN [st |-> [S1 EXCEPT !.timerUpdateThrottle = MapDelete(@, channelId),
                                              !.activeTimers = MapDelete(@, channelId)],
                            pushed |-> FALSE]
                      ELSE IF timer.isPaused THEN [st |-> S1, pushed |-> FALSE]
                      ELSE IF editOk THEN [st |-> S1, pushed |-> TRUE]
                      ELSE [st |-> [S1 EXCEPT
                                      !.timerMessages = @ \ {channelId},
                                      !.timerUpdateThrottle = MapDelete(@, channelId)],
                            pushed |-> FALSE]

\* updateTimerMessage(channelId, timer) at time t; editOk: the edit succeeds.
\* The result is the maps afterwards and whether the status was pushed.
updateTimerMessage(S, t, channelId, timer, editOk) ==
    IF channelId \notin S.timerMessages THEN [st |-> S, pushed |-> FALSE]
    ELSE LET lastUpdate == IF channelId \in DOMAIN S.timerUpdateThrottle
                           THEN S.timerUpdateThrottle[channelId] ELSE 0
         IN  IF t - lastUpdate < UPDATE_THROTTLE_MS THEN [st |-> S, pushed |-> FALSE]
             ELSE LET S1 == [S EXCEPT !.timerUpdateThrottle = MapSet(@, channelId, t)]
                      remaining == IF timer.isPaused /\ PausedRemainingOrZero(timer) # 0
                                   THEN timer.pausedRemainingTime
                                   ELSE timer.endTime - t
                  IN  IF remaining <= 0
                      THEN [st |-> [S1 EXCEPT !.timerUpdateThrottle = MapDelete(@, channelId)],
                            pushed |-> FALSE]
                      ELSE IF timer.isPaused THEN [st |-> S1, pushed |-> FALSE]
                      ELSE IF editOk THEN [st |-> S1, pushed |-> TRUE]
                      ELSE [st |-> [S1 EXCEPT
                                      !.timerMessages = @ \ {channelId},
                                      !.timerUpdateThrottle = MapDelete(@, channelId)],
                            pushed |-> FALSE]

\* a tick of the update interval of timer object tid, a period or more
\* after the previous one; lastPush remembers the edit while it is younger
\* than the throttle window
RefreshTick(tid, editOk) ==
    /\ tid \in DOMAIN timers
    /\ \E h \in timers[tid].updateIntervalId :
          /\ h.next <= now
          /\ LET ticked == [Registry EXCEPT !.timers[tid].updateIntervalId =
                                              {[h EXCEPT !.next = now + h.every]}]
                 r == updateTimerMessage(ticked, now, timers[tid].channelId,
                                         timers[tid], editOk)
             IN  /\ Commit(r.st, expiring)
                 /\ events' = IF r.pushed
                              THEN {Event("status_push", timers[tid].channelId, tid)}
                              ELSE {}
                 /\ lastPush' = IF r.pushed
                                THEN MapSet(lastPush, timers[tid].channelId, now)
                                ELSE lastPush
    /\ result' = NoResult
    /\ UNCHANGED <<now, defaultTimes, pending>>
    /\ UNCHANGED voiceVars
    /\ UNCHANGED guardVars
    /\ ran' = RunTime /\ warned' = Warned

----------------------------------------------------------------------------

\* the steps of the program with its inputs drawn from the given sets: the
\* start commands are issued on the channels starts, the others on chans
Step(starts, chans, csArgs, slashArgs, setArgs, until) ==
    \/ \E c \in starts, a \in csArgs : CsBegin(c, a)
    \/ \E p \in pending : CsFinish(p)
    \/ \E c \in starts, a \in slashArgs : SlashBegin(c, a)
    \/ \E p \in pending : SlashFinish(p)
    \/ \E c \in starts : ButtonBegin(c)
    \/ \E p \in pending : ButtonFinish(p)
    \/ \E p \in pending : StartAbort(p)
    \/ \E c \in chans : PauseToggle(c)
    \/ \E c \in chans : StopCmd(c)
    \/ \E c \in chans : ClearChannel(c)
    \/ \E c \in chans : ConfirmClear(GuildOf(c))
    \/ \E c \in chans : Status(c)
    \/ \E c \in chans, a \in setArgs : SetDefaultCs(GuildOf(c), a)
    \/ \E c \in chans, a \in setArgs : SetDefaultSlash(GuildOf(c), a)
    \/ \E d \in Deltas \cup {due - now : due \in Dues} : Advance(d, until)
    \/ \E tid \in DOMAIN timers : ExpiryFire(tid)
    \/ \E e \in expiring, v \in BOOLEAN : ExpiryFinish(e, v)
    \/ \E e \in expiring : ExpirySendFail(e)
    \/ \E tid \in DOMAIN timers : WarningFire(tid)
    \/ \E tid \in DOMAIN timers, ok \in BOOLEAN : RefreshTick(tid, ok)

Next == Step({1}, {1}, CsArgs, SlashArgs, SetArgs, MaxTime)

Spec == Init /\ [][Next]_vars

\* the program near its capacity: a guild that holds MAX_TIMERS_PER_GUILD
\* timers, or a registry one short of MAX_TOTAL_TIMERS
InitCap == InitAt(BackgroundTenant) \/ InitAt(BackgroundGlobal)

NextCap == Step(CmdChannels, {MAX_TOTAL_TIMERS + 2}, {<<"1", "m">>}, {<<"2", "M">>}, SetArgs, MaxTimeCap)

SpecCap == InitCap /\ [][NextCap]_vars

\* The event loop makes progress: the clock moves on, a timeout that is due
\* runs its callback, and an awaited reply or send settles one way or the other.
Settles ==
    \/ \E p \in pending : CsFinish(p) \/ SlashFinish(p) \/ ButtonFinish(p) \/ StartAbort(p)
    \/ \E e \in expiring : ExpirySendFail(e) \/ \E v \in BOOLEAN : ExpiryFinish(e, v)

Fairness(until) ==
    /\ SF_vars(\E d \in Deltas \cup {due - now : due \in Dues} : Advance(d, until))
    /\ WF_vars(\E tid \in DOMAIN timers : ExpiryFire(tid))
    /\ WF_vars(\E tid \in DOMAIN timers : WarningFire(tid))
    /\ WF_vars(Settles)

\* one channel issuing commands, its guild empty or one timer short of
\* MAX_TIMERS_PER_GUILD, under the progress conditions
InitRestart == InitAt({}) \/ InitAt(BackgroundAlmost)

NextRestart == Step({1}, {1}, {<<"1", "m">>}, {<<"2", "M">>}, SetArgs, MaxTimeCap)

SpecRestart == InitRestart /\ [][NextRestart]_vars

FairSpecRestart == SpecRestart /\ Fairness(MaxTimeCap)

\* the same, the clock followed for another HorizonCap, past the end of the
\* timers that end within the first
MaxTimeOutlive == MaxTimeCap + HorizonCap

NextOutlive == Step({1}, {1}, {<<"1", "m">>}, {<<"2", "M">>}, SetArgs, MaxTimeOutlive)

SpecOutlive == InitRestart /\ [][NextOutlive]_vars

FairSpecOutlive == SpecOutlive /\ Fairness(MaxTimeOutlive)

\* two guilds: channel 2 of guild 1 holds a timer that was paused, and the
\* first channel of guild 2 a timer that is running, both started at BootTime;
\* the commands are issued on channel 1 of guild 1
OtherGuildChannel == MAX_TIMERS_PER_GUILD + 2

InitTenants ==
    /\ now = BootTime
    /\ activeTimers = [c \in {2, OtherGuildChannel} |-> BackgroundId(c)]
    /\ timers = [i \in {BackgroundId(2), BackgroundId(OtherGuildChannel)} |->
                    LET timer == NewTimer(i - MAX_TOTAL_TIMERS, BootTime,
                                          MAX_TIMER_DURATION, "Timer (default)")
                    IN  IF i = BackgroundId(2) THEN pauseTimer(timer, BootTime) ELSE timer]
    /\ defaultTimes = << >>
    /\ timerMessages = {OtherGuildChannel}
    /\ timerUpdateThrottle = << >>
    /\ pending = {}
    /\ expiring = {}
    /\ events = {}
    /\ result = NoResult
    /\ lastPush = << >>
    /\ voiceConnections = << >>
    /\ connections = << >>
    /\ joining = {}
    /\ microphoneUnmuteHistory = << >>
    /\ userCooldowns = << >>
    /\ ran = [tid \in DOMAIN timers |-> 0]
    /\ warned = {}

NextTenants == Step({1}, {1}, {<<"1", "m">>}, {<<"2", "M">>}, SetArgs, MaxTimeCap)

SpecTenants == InitTenants /\ [][NextTenants]_vars

\* channel 1 after an expiry callback has overtaken a start: its timer was
\* started at BootTime while the expiry callback of the channel's previous
\* timer was suspended at its send, and the callback has since ended with
\* ExpiryCleanup, deleting the channel's registry, throttle and status message
\* entries.  The timer object runs on with its three handles armed.
InitRefresh ==
    /\ now = BootTime
    /\ activeTimers = << >>
    /\ timers = [i \in {BackgroundId(1)} |->
                    NewTimer(1, BootTime, DEFAULT_TIMER_DURATION, "Timer (default)")]
    /\ defaultTimes = << >>
    /\ timerMessages = {}
    /\ timerUpdateThrottle = << >>
    /\ pending = {}
    /\ expiring = {}
    /\ events = {}
    /\ result = NoResult
    /\ lastPush = << >>
    /\ voiceConnections = << >>
    /\ connections = << >>
    /\ joining = {}
    /\ microphoneUnmuteHistory = << >>
    /\ userCooldowns = << >>
    /\ ran = [tid \in DOMAIN timers |-> 0]
    /\ warned = {}

NextRefresh == Step({1}, {1}, {<<"1", "m">>}, {<<"2", "M">>}, SetArgs, MaxTimeCap)

SpecRefresh == InitRefresh /\ [][NextRefresh]_vars

----------------------------------------------------------------------------
(* Vocabulary of the properties *)

Total == Cardinality(DOMAIN activeTimers)

GuildCount(g) ==
    Cardinality({c \in DOMAIN activeTimers : timers[activeTimers[c]].guildId = g})

Guilds == {GuildOf(c) : c \in Channels}

StartOps == {"cs", "timer", "timer_start"}

\* how a start handler ends when startTimer returns null
Rejected(r) == r.op \in StartOps /\ r.status \in {"limit_per_server", "not_reported"}

\* this step resumes the suspended start handler p, which calls startTimer
Finishes(p) ==
    /\ p \in pending
    /\ pending' = pending \ {p}
    /\ result'.op = p.kind
    /\ result'.status # "reply_failed"

NoHandle(timer) ==
    /\ timer.timeoutId = {}
    /\ timer.warningTimeoutId = {}
    /\ timer.updateIntervalId = {}
    /\ timer.stray = {}

\* this step is the timer_pause handler acting on channel c
Toggles(c) == result'.op = "timer_pause" /\ result'.ch = c

----------------------------------------------------------------------------
(* C2 *)

CapsHold ==
    /\ Total <= MAX_TOTAL_TIMERS
    /\ \A g \in Guilds : GuildCount(g) <= MAX_TIMERS_PER_GUILD

\* a channel enters the registry only in a step whose own pre-state passes
\* the capacity check
CheckedInsertion ==
    \A c \in Channels :
        (c \notin DOMAIN activeTimers /\ c \in DOMAIN activeTimers')
            => canCreateTimer(Registry, GuildOf(c))

\* C2: in every reachable state, whatever the interleaving of starts, pause,
\* resume, stops, bulk stops and expiry callbacks, each guild has at most
\* MAX_TIMERS_PER_GUILD (10) resident timers and the registry at most
\* MAX_TOTAL_TIMERS (100); the capacity check and the insertion are one step.
C2_Caps == []CapsHold /\ [][CheckedInsertion]_vars

\* a start has just filled the registry to MAX_TOTAL_TIMERS
C2_RegistryFull == Total = MAX_TOTAL_TIMERS /\ result.status = "started"

----------------------------------------------------------------------------
(* C3 *)

StartOutcome(p) ==
    LET g == GuildOf(p.ch)
        nothingCreated == activeTimers' = activeTimers /\ timers' = timers
    IN  /\ (GuildCount(g) >= MAX_TIMERS_PER_GUILD /\ p.ch \notin DOMAIN activeTimers)
              => (Rejected(result') /\ nothingCreated)
        /\ (GuildCount(g) < MAX_TIMERS_PER_GUILD /\ Total < MAX_TOTAL_TIMERS)
              => /\ result'.status = "started"
                 /\ p.ch \in DOMAIN activeTimers'
                 /\ timers'[activeTimers'[p.ch]].duration = p.duration
        /\ Total >= MAX_TOTAL_TIMERS => (Rejected(result') /\ nothingCreated)

\* C3: when a guild has 10 resident timers, a start for a further channel of
\* that guild is rejected and creates no timer, while a start for a channel of
\* a guild below its cap succeeds as long as the registry holds fewer than 100
\* timers; when the registry holds 100 timers every start is rejected.
C3_CapacityRejection == [][\A p \in pending : Finishes(p) => StartOutcome(p)]_vars

\* a start on channel 1 was rejected because its guild holds 10 timers, the
\* registry being below its own cap
C3_GuildFull ==
    /\ Rejected(result) /\ result.ch = 1
    /\ 1 \notin DOMAIN activeTimers
    /\ GuildCount(GuildOf(1)) = MAX_TIMERS_PER_GUILD
    /\ Total < MAX_TOTAL_TIMERS

----------------------------------------------------------------------------
(* C4 *)

\* C4: a start rejected for capacity reports which cap was hit: no start that
\* is rejected because the registry holds 100 timers, its guild holding fewer
\* than 10, ends with the per-server limit reply (or with no report at all).
C4_ScopeReported ==
    ~(/\ Rejected(result)
      /\ Total >= MAX_TOTAL_TIMERS
      /\ GuildCount(GuildOf(result.ch)) < MAX_TIMERS_PER_GUILD)

----------------------------------------------------------------------------
(* C5 *)

\* C5: every resident timer satisfies 1000 <= duration <= 86400000, because
\* every command path that starts a timer rejects a duration outside the range.
C5_DurationRange ==
    \A c \in DOMAIN activeTimers :
        /\ timers[activeTimers[c]].duration >= MIN_TIMER_DURATION
        /\ timers[activeTimers[c]].duration <= MAX_TIMER_DURATION

----------------------------------------------------------------------------
(* C6 *)

\* C6: a stop on a paused timer returns as remaining the pausedRemainingTime
\* stored at the pause, however much time has passed since.
C6_StopPaused ==
    [][\A c \in DOMAIN activeTimers :
          (/\ timers[activeTimers[c]].isPaused
           /\ result'.op = "stop" /\ result'.ch = c /\ result'.status = "stopped")
              => result'.remaining = PausedRemainingOrZero(timers[activeTimers[c]])]_vars

----------------------------------------------------------------------------
(* C7 *)

PauseEffect(c) ==
    LET tid == activeTimers[c]
        timer == timers[tid]
    IN  /\ result'.status = "paused"
        /\ c \in DOMAIN activeTimers' /\ activeTimers'[c] = tid
        /\ timers'[tid].isPaused
        /\ timers'[tid].pausedRemainingTime = Max(0, timer.endTime - now)
        /\ NoHandle(timers'[tid])

\* C7: the timer_pause handler on a running timer stores
\* pausedRemainingTime = max(0, endTime - now), marks the timer paused and
\* cancels its expiry, warning and refresh handles, all in the one step that
\* precedes its replies; the timer stays resident.
C7_Pause ==
    [][\A c \in DOMAIN activeTimers :
          (~timers[activeTimers[c]].isPaused /\ Toggles(c)) => PauseEffect(c)]_vars

\* channel 1's timer was just paused some time after its start, before its end
C7_Paused ==
    /\ result.op = "timer_pause" /\ result.status = "paused" /\ result.ch = 1
    /\ 1 \in DOMAIN activeTimers
    /\ timers[activeTimers[1]].isPaused
    /\ timers[activeTimers[1]].pausedRemainingTime > 0
    /\ now > timers[activeTimers[1]].startTime

----------------------------------------------------------------------------
(* C8 *)

CommandOps == StartOps \cup {"timer_pause", "stop", "clear-channel",
                             "confirm_clear_messages"}

\* C8: while a timer is paused no expiry notification, warning cue or refresh
\* push is produced for it, and it stays the channel's resident timer until a
\* resume, stop, bulk stop or replacing start.
C8_PausedQuiet ==
    [][\A c \in DOMAIN activeTimers :
          LET tid == activeTimers[c]
          IN  timers[tid].isPaused
                 => /\ \A e \in events' : e.tid # tid
                    /\ \/ (c \in DOMAIN activeTimers' /\ activeTimers'[c] = tid)
                       \/ result'.op \in CommandOps]_vars

----------------------------------------------------------------------------
(* C9 *)

ResumeEffect(c) ==
    LET tid == activeTimers[c]
        timer == timers[tid]
        endTime == now + timer.pausedRemainingTime
        eligible == endTime - WARNING_TIME_BEFORE_END > now
                    /\ timer.duration > WARNING_TIME_BEFORE_END
    IN  /\ result'.status = "resumed"
        /\ c \in DOMAIN activeTimers' /\ activeTimers'[c] = tid
        /\ ~timers'[tid].isPaused
        /\ "pausedRemainingTime" \notin DOMAIN timers'[tid]
        /\ timers'[tid].endTime = endTime
        /\ timers'[tid].endTime - now = timer.pausedRemainingTime
        /\ timers'[tid].timeoutId = {[due |-> endTime, from |-> "resume"]}
        /\ timers'[tid].updateIntervalId = {setInterval(now)}
        /\ timers'[tid].warningTimeoutId =
              IF eligible THEN {[due |-> endTime - WARNING_TIME_BEFORE_END]} ELSE {}
        /\ timers'[tid].stray = {}

\* C9: the timer_pause handler at time r on a paused timer with
\* pausedRemainingTime > 0 sets endTime = r + pausedRemainingTime, deletes
\* pausedRemainingTime, marks the timer running and arms expiry, warning (when
\* eligible) and refresh against the new endTime, so that the remaining time
\* right after the resume is the one captured at the pause.
C9_Resume ==
    [][\A c \in DOMAIN activeTimers :
          (/\ timers[activeTimers[c]].isPaused
           /\ PausedRemainingOrZero(timers[activeTimers[c]]) > 0
           /\ Toggles(c)) => ResumeEffect(c)]_vars

\* channel 1's timer was just resumed after time had passed in the pause: its
\* end is later than start + duration
C9_Resumed ==
    /\ result.op = "timer_pause" /\ result.status = "resumed" /\ result.ch = 1
    /\ 1 \in DOMAIN activeTimers
    /\ LET timer == timers[activeTimers[1]]
       IN  timer.endTime > timer.startTime + timer.duration

----------------------------------------------------------------------------
(* C10 *)

\* C10 as stated: a pause request on a timer that is already paused changes
\* nothing (still paused, pausedRemainingTime unchanged, no handle armed).
C10_PauseIdempotent ==
    [][\A c \in DOMAIN activeTimers :
          (timers[activeTimers[c]].isPaused /\ Toggles(c))
              => /\ c \in DOMAIN activeTimers'
                 /\ activeTimers'[c] = activeTimers[c]
                 /\ timers'[activeTimers[c]] = timers[activeTimers[c]]]_vars

\* C10: the pause request is a toggle: on a timer that is already paused it
\* never leaves the timer paused; it resumes it (running, expiry armed) when
\* pausedRemainingTime > 0 and removes it from the registry otherwise.
C10_PauseToggles ==
    [][\A c \in DOMAIN activeTimers :
          LET tid == activeTimers[c]
          IN  (timers[tid].isPaused /\ Toggles(c))
                 => IF PausedRemainingOrZero(timers[tid]) > 0
                    THEN /\ result'.status = "resumed"
                         /\ c \in DOMAIN activeTimers' /\ activeTimers'[c] = tid
                         /\ ~timers'[tid].isPaused
                         /\ timers'[tid].timeoutId # {}
                    ELSE /\ result'.status = "expired"
                         /\ c \notin DOMAIN activeTimers']_vars

\* a pause request found channel 1's timer paused with nothing remaining and
\* removed it
C10_ToggledOut ==
    /\ result.op = "timer_pause" /\ result.status = "expired" /\ result.ch = 1
    /\ 1 \notin DOMAIN activeTimers

----------------------------------------------------------------------------
(* C1 *)

\* this step resumes the start handler p on a channel that holds a resident
\* timer whose expiry callback has not run
Restarts(p) ==
    /\ Finishes(p)
    /\ p.ch \in DOMAIN activeTimers
    /\ activeTimers[p.ch] \notin {e.tid : e \in expiring}

RestartEffect(p) ==
    LET old == activeTimers[p.ch]
    IN  /\ result'.status = "started"
        /\ p.ch \in DOMAIN activeTimers'
        /\ activeTimers'[p.ch] # old
        /\ LET new == timers'[activeTimers'[p.ch]]
           IN  /\ new.duration = p.duration
               /\ new.endTime = now + p.duration
               /\ new.timeoutId = {[due |-> now + p.duration, from |-> "start"]}
        \* the first timer has no armed handle left: nothing refers to it
        /\ old \notin DOMAIN timers'

\* the identities of the timer objects created in a run
TimerIds == 1..(MaxDetached + MaxPending + 2)

\* a start on channel c has just stored the timer object tid, which ends
\* before the clock stops
Accepted(c, tid, until) ==
    /\ result.op \in StartOps /\ result.status = "started" /\ result.ch = c
    /\ c \in DOMAIN activeTimers /\ activeTimers[c] = tid
    /\ timers[tid].endTime <= until

ExpiryEvent(c, tid) == Event("finished", c, tid) \in events

\* a command has taken the expiry timeout of the timer object tid away
ExpiryCancelled(c, tid) ==
    /\ result.op \in CommandOps
    /\ ~(tid \in DOMAIN timers /\ timers[tid].channelId = c
                               /\ timers[tid].timeoutId # {})

\* the timer a start has stored on channel 1 eventually produces its expiry
\* event, unless a command cancels its expiry timeout first
ExpiresOnce ==
    \A tid \in TimerIds :
        Accepted(1, tid, MaxTimeCap) ~> (ExpiryEvent(1, tid) \/ ExpiryCancelled(1, tid))

----------------------------------------------------------------------------
(* C11 *)

\* this step is the timer_pause handler finding channel c's timer paused
\* with no time left
ResumesExpired(c) ==
    /\ timers[activeTimers[c]].isPaused
    /\ PausedRemainingOrZero(timers[activeTimers[c]]) <= 0
    /\ Toggles(c)

\* C11: the timer_pause handler on a paused timer whose pausedRemainingTime is
\* <= 0 removes the timer from the registry and reports "Timer Expired"; it
\* emits nothing and leaves no handle of the timer armed, so that no expiry
\* notification and no warning can be started for it afterwards.
C11_ResumeExpired ==
    [][\A c \in DOMAIN activeTimers :
          ResumesExpired(c) =>
             LET tid == activeTimers[c]
             IN  /\ result'.status = "expired"
                 /\ c \notin DOMAIN activeTimers'
                 /\ tid \in DOMAIN timers' => NoHandle(timers'[tid])
                 /\ events' = {}]_vars

\* channel 1's timer, paused at the instant of its end, was just resumed
C11_Expired ==
    /\ result.op = "timer_pause" /\ result.status = "expired" /\ result.ch = 1
    /\ 1 \notin DOMAIN activeTimers
    /\ expiring = {}

----------------------------------------------------------------------------
(* C12 *)

\* C12: in every reachable state, the timer object of every channel in the
\* registry has the property pausedRemainingTime if and only if it is paused.
C12_PausedRemainingDefined ==
    \A c \in DOMAIN activeTimers :
        ("pausedRemainingTime" \in DOMAIN timers[activeTimers[c]])
            <=> timers[activeTimers[c]].isPaused

\* channel 1's timer was paused and has just been resumed: it is running and
\* the property is gone
C12_ResumedRunning ==
    /\ result.op = "timer_pause" /\ result.status = "resumed" /\ result.ch = 1
    /\ 1 \in DOMAIN activeTimers
    /\ ~timers[activeTimers[1]].isPaused
    /\ "pausedRemainingTime" \notin DOMAIN timers[activeTimers[1]]

----------------------------------------------------------------------------
(* C13 *)

\* no warning timeout is armed for a timer of at most one minute
ShortNeverArmed ==
    \A tid \in DOMAIN timers :
        timers[tid].duration <= WARNING_TIME_BEFORE_END
            => timers[tid].warningTimeoutId = {}

\* no warning callback runs for a timer of at most one minute
ShortNeverWarns ==
    \A e \in events' :
        e.type = "warning_sound" => timers[e.tid].duration > WARNING_TIME_BEFORE_END

\* C13: for a timer whose duration is <= 60000 ms no warning timeout is ever
\* armed and no warning callback ever runs, from its start on and through
\* every pause and resume.
C13_ShortTimerNoWarning == []ShortNeverArmed /\ [][ShortNeverWarns]_vars

\* a one-minute timer on channel 1 was paused, and resumed at a later instant
C13_ShortResumed ==
    /\ result.op = "timer_pause" /\ result.status = "resumed" /\ result.ch = 1
    /\ 1 \in DOMAIN activeTimers
    /\ timers[activeTimers[1]].duration = WARNING_TIME_BEFORE_END
    /\ timers[activeTimers[1]].endTime > timers[activeTimers[1]].startTime
                                            + timers[activeTimers[1]].duration

----------------------------------------------------------------------------
(* C14 *)

\* an armed warning timeout is the only one of its timer, is due one minute
\* before the timer's end, and belongs to a timer longer than one minute
WarningWellArmed ==
    \A tid \in DOMAIN timers :
        /\ Cardinality(timers[tid].warningTimeoutId) <= 1
        /\ \A s \in timers[tid].stray : s.kind # "warning"
        /\ \A h \in timers[tid].warningTimeoutId :
              /\ h.due = timers[tid].endTime - WARNING_TIME_BEFORE_END
              /\ timers[tid].duration > WARNING_TIME_BEFORE_END

\* a warning timeout that this step arms is due in the future
WarningArmedAhead ==
    \A tid \in DOMAIN timers' :
        \A h \in timers'[tid].warningTimeoutId :
            (tid \notin DOMAIN timers \/ h \notin timers[tid].warningTimeoutId)
                => h.due > now'

\* C14: whenever the warning timeout of a timer is armed it is due at the
\* timer's current endTime - 60000, the timer's duration is > 60000 and the
\* due time was in the future when it was armed; a timer never has two armed
\* warning timeouts, start and resume cancelling the old one before arming.
C14_WarningDeadline == []WarningWellArmed /\ [][WarningArmedAhead]_vars

\* channel 1's timer was resumed at an instant later than its pause, and its
\* warning is armed again, one minute before the end it has now
C14_RearmedWarning ==
    /\ result.op = "timer_pause" /\ result.status = "resumed" /\ result.ch = 1
    /\ 1 \in DOMAIN activeTimers
    /\ timers[activeTimers[1]].warningTimeoutId # {}
    /\ timers[activeTimers[1]].endTime > timers[activeTimers[1]].startTime
                                            + timers[activeTimers[1]].duration

----------------------------------------------------------------------------
(* C16 *)

\* C16: when the expiry callback of a timer has run to its end and the timer
\* is no longer in the registry, none of the timer's handles is still armed;
\* in particular its update interval has been cleared.
C16_ExpiredHandlesCleared ==
    [][\A e \in expiring :
          (/\ e \notin expiring'
           /\ e.tid \notin Resident(activeTimers')
           /\ e.tid \in DOMAIN timers') => NoHandle(timers'[e.tid])]_vars

----------------------------------------------------------------------------
(* C18 *)

\* this step is the stop command on channel c
Stops(c) == result'.op = "stop" /\ result'.ch = c

StopEffect(c) ==
    IF c \in DOMAIN activeTimers
    THEN LET tid == activeTimers[c]
         IN  /\ result'.status = "stopped"
             /\ c \notin DOMAIN activeTimers'
             /\ tid \in DOMAIN timers' => NoHandle(timers'[tid])
             /\ events' = {}
    ELSE /\ result'.status = "no_active_timer"
         /\ UNCHANGED <<now, activeTimers, timers, defaultTimes, timerMessages,
                        timerUpdateThrottle, pending, expiring>>

\* an expiry notification, warning cue or refresh push comes from a timer
\* object that had a handle armed
EventFromArmedHandle ==
    \A e \in events' :
        e.type \in {"finished", "warning_sound", "status_push"}
            => e.tid \in DOMAIN timers /\ ~NoHandle(timers[e.tid])

\* a timer object outside the registry with no armed handle gets none
RemovedStaysDisarmed ==
    \A tid \in (DOMAIN timers) \cap (DOMAIN timers') :
        (tid \notin Resident(activeTimers) /\ NoHandle(timers[tid]))
            => (tid \notin Resident(activeTimers') /\ NoHandle(timers'[tid]))

----------------------------------------------------------------------------
(* C19 *)

\* C19: after '/clear-channel' (stopAllTimersInChannel) has removed a
\* channel's timer, none of that timer's expiry, warning or refresh handles
\* is still armed.
C19_ClearChannelCancels ==
    [][\A c \in DOMAIN activeTimers :
          (result'.op = "clear-channel" /\ result'.ch = c)
             => LET tid == activeTimers[c]
                IN  /\ c \notin DOMAIN activeTimers'
                    /\ tid \in DOMAIN timers' => NoHandle(timers'[tid])]_vars

----------------------------------------------------------------------------
(* C20 *)

\* this step removes every timer of guild g from the registry, leaves none
\* of their handles armed, and leaves the timers of the other guilds alone
TenantCleared(g) ==
    /\ DOMAIN activeTimers' \subseteq DOMAIN activeTimers
    /\ \A c \in DOMAIN activeTimers :
          LET tid == activeTimers[c]
          IN  IF timers[tid].guildId = g
              THEN /\ c \notin DOMAIN activeTimers'
                   /\ tid \in DOMAIN timers' => NoHandle(timers'[tid])
              ELSE /\ c \in DOMAIN activeTimers'
                   /\ activeTimers'[c] = tid
                   /\ timers'[tid] = timers[tid]

\* the guild in which the commands other than the starts are issued
CommandGuild == GuildOf(1)

\* C20: the confirm_clear_messages flow removes every timer of the guild it
\* is used in from the registry with all of its handles cancelled, and leaves
\* the timers of every other guild in the registry, their state and armed
\* handles unchanged.
C20_StopAllForTenant ==
    [][result'.op = "confirm_clear_messages" => TenantCleared(CommandGuild)]_vars

\* guild 1 was just cleared (the timer channel 2 held from the start is
\* gone) while a timer of guild 2 is running with its handles armed
C20_OtherTenantRunning ==
    /\ result.op = "confirm_clear_messages"
    /\ DOMAIN activeTimers = {OtherGuildChannel}
    /\ ~timers[activeTimers[OtherGuildChannel]].isPaused
    /\ timers[activeTimers[OtherGuildChannel]].timeoutId # {}
    /\ timers[activeTimers[OtherGuildChannel]].warningTimeoutId # {}
    /\ timers[activeTimers[OtherGuildChannel]].updateIntervalId # {}
    /\ now > BootTime

----------------------------------------------------------------------------
(* C17 *)

\* the timer object tid is no longer the running timer of channel c: it was
\* paused, or stopped, replaced or otherwise taken out of the registry
PausedStoppedOrReplaced(c, tid) ==
    \/ c \notin DOMAIN activeTimers
    \/ activeTimers[c] # tid
    \/ timers[tid].isPaused

\* a reply awaited by a start handler was rejected
SinkFailed == result.status = "reply_failed"

\* C17: a timer that a start has stored on channel 1 and that is not paused,
\* stopped or replaced eventually expires (its terminal notification is
\* emitted), as long as the sinks return; no timer stays running forever.
\* The timers are those that end at MaxTimeCap or before, with the clock
\* running on to MaxTimeOutlive.
C17_RunningExpires ==
    \A tid \in TimerIds :
        Accepted(1, tid, MaxTimeCap)
            ~> (ExpiryEvent(1, tid) \/ PausedStoppedOrReplaced(1, tid) \/ SinkFailed)

----------------------------------------------------------------------------
(* C15 *)

\* C15: for every channel, two status pushes made by updateTimerMessage (the
\* message edits that reach the channel) are at least 500 ms apart: a tick
\* that comes less than 500 ms after the channel's last push pushes nothing.
C15_PushesApart ==
    [][\A e \in events' :
          (e.type = "status_push" /\ e.ch \in DOMAIN lastPush)
             => now - lastPush[e.ch] >= UPDATE_THROTTLE_MS]_vars

----------------------------------------------------------------------------
(* C21 *)

\* C21: '!status' on any channel, with or without a timer in the registry,
\* leaves the registry, every field of every timer object and every armed
\* handle as they were, and emits nothing.
C21_StatusReadOnly ==
    [][\A c \in Channels :
          (result'.op = "status" /\ result'.ch = c)
             => /\ UNCHANGED <<activeTimers, timers, defaultTimes, timerMessages,
                               timerUpdateThrottle, pending, expiring>>
                /\ events' = {}]_vars

\* '!status' was just answered for channel 1's timer at the instant of its
\* end, before the expiry callback ran: the timer is still there, its expiry
\* timeout armed
C21_StatusAtEnd ==
    /\ result.op = "status" /\ result.status = "active" /\ result.ch = 1
    /\ result.remaining <= 0
    /\ 1 \in DOMAIN activeTimers
    /\ timers[activeTimers[1]].timeoutId # {}
    /\ timers[activeTimers[1]].updateIntervalId # {}

----------------------------------------------------------------------------
(* C22 *)

\* 'quick_2m' .. 'quick_40m' buttons: store the button's time as the guild's default
QuickDefault(guildId, timeStr) ==
    /\ LET duration == parseTime(timeStr, defaultTimes, guildId)
       IN  IF duration = << >>
           THEN /\ defaultTimes' = defaultTimes
                /\ result' = Outcome("quick", 0, "rejected", 0)
           ELSE /\ defaultTimes' = MapSet(defaultTimes, guildId, duration[1])
                /\ result' = Outcome("quick", 0, "default_set", duration[1])
    /\ events' = {}
    /\ UNCHANGED <<lastPush, now, activeTimers, timers, timerMessages, timerUpdateThrottle,
                   pending, expiring>>
    /\ UNCHANGED voiceVars
    /\ UNCHANGED guardVars
    /\ ran' = RunTime /\ warned' = Warned

\* times given to '!set cs' and '/set-default', and the time of a quick button
DefaultArgs == { <<"1", "m">>, <<"2", "M">>, <<"5", "x">> }
QuickArgs == { <<"2", "m">> }

\* starts without a duration in guild 1, defaults stored in two guilds
NextDefaults ==
    \/ Step({1}, CmdChannels, {<< >>}, {<< >>}, DefaultArgs, MaxTimeCap)
    \/ \E c \in CmdChannels, a \in QuickArgs : QuickDefault(GuildOf(c), a)

SpecDefaults == Init /\ [][NextDefaults]_vars

\* what a guild's default is, by the stored values alone
StoredOrDefault(g) ==
    IF g \in DOMAIN defaultTimes THEN defaultTimes[g] ELSE DEFAULT_TIMER_DURATION

\* C22: a start without an explicit duration takes the duration stored last for
\* its guild, or 300000 ms when the guild has none stored, and the timer it
\* creates has that duration; a step that stores a default stores it for one
\* guild, replacing the older value and leaving every other guild's entry as
\* it was; no other step changes a stored default.
C22_DefaultDuration ==
    [][/\ \A p \in pending' \ pending :
             p.message = "Timer (default)" => p.duration = StoredOrDefault(GuildOf(p.ch))
       /\ \A p \in pending \ pending' :
             (result'.op = p.kind /\ result'.status = "started")
                => timers'[activeTimers'[p.ch]].duration = p.duration
       /\ IF result'.status = "default_set"
          THEN \E g \in Guilds :
                  /\ DOMAIN defaultTimes' = DOMAIN defaultTimes \cup {g}
                  /\ defaultTimes'[g] = result'.remaining
                  /\ \A h \in DOMAIN defaultTimes \ {g} : defaultTimes'[h] = defaultTimes[h]
          ELSE UNCHANGED defaultTimes]_vars

\* a timer started without a duration with the default stored for its guild,
\* while another guild holds a different default
C22_LastDefaultUsed ==
    /\ result.op \in StartOps /\ result.status = "started" /\ result.ch = 1
    /\ timers[activeTimers[1]].message = "Timer (default)"
    /\ timers[activeTimers[1]].duration = 2 * 60000
    /\ GuildOf(1) \in DOMAIN defaultTimes /\ defaultTimes[GuildOf(1)] = 2 * 60000
    /\ GuildOf(MAX_TOTAL_TIMERS + 2) \in DOMAIN defaultTimes
    /\ defaultTimes[GuildOf(MAX_TOTAL_TIMERS + 2)] = 60000

----------------------------------------------------------------------------
(* C23 *)

\* the strings parseTime is given: every non-empty string of at most MaxArgLen
\* characters over digits, unit letters of both cases and another letter
MaxArgLen == 3
ArgChars == {"0", "1", "2", "s", "M", "h", "x"}
ParseArgs == UNION {[1..n -> ArgChars] : n \in 1..MaxArgLen}

\* the strings the start commands are given: the short ones and some long ones
StartArgs ==
    {a \in ParseArgs : Len(a) < MaxArgLen}
       \cup { <<"1", "2", "M">>, <<"0", "1", "h">>, <<"1", "2", "x">>, <<"1", "s", "2">> }

\* the start commands alone
NextParse ==
    \/ \E a \in StartArgs : CsBegin(1, a)
    \/ \E p \in pending : CsFinish(p)
    \/ \E a \in StartArgs : SlashBegin(1, a)
    \/ \E p \in pending : SlashFinish(p)
    \/ \E p \in pending : StartAbort(p)

SpecParse == Init /\ [][NextParse]_vars

\* <digits><unit>, the unit in either case
TimeForm(a) ==
    /\ Len(a) >= 2
    /\ a[Len(a)] \in {"s", "m", "h", "S", "M", "H"}
    /\ {a[i] : i \in 1..(Len(a) - 1)} \subseteq Digits

RECURSIVE Pow10(_)
Pow10(n) == IF n = 0 THEN 1 ELSE 10 * Pow10(n - 1)

RECURSIVE SumOver(_, _)
SumOver(f, S) ==
    IF S = {} THEN 0
    ELSE LET i == CHOOSE j \in S : TRUE IN f[i] + SumOver(f, S \ {i})

\* the number a string of decimal digits denotes
Denotes(ds) ==
    SumOver([i \in 1..Len(ds) |-> DigitVal(ds[i]) * Pow10(Len(ds) - i)], 1..Len(ds))

UnitMs(u) ==
    CASE u \in {"s", "S"} -> 1000
      [] u \in {"m", "M"} -> 60000
      [] u \in {"h", "H"} -> 3600000

ExpectedMs(a) == Denotes(SubSeq(a, 1, Len(a) - 1)) * UnitMs(a[Len(a)])

\* C23: parseTime gives digits x 1000, x 60000 or x 3600000 ms for a string
\* <digits><s|m|h> with the unit in either case, and null for every other
\* non-empty string; a '!cs' or '/timer' given such another string reports an
\* invalid format, suspends nowhere and creates no timer, and one that goes on
\* to start a timer starts it with the parsed duration.
C23_ParseTime ==
    /\ [](\A a \in ParseArgs, g \in {GuildOf(c) : c \in CmdChannels} :
            parseTime(a, defaultTimes, g) = IF TimeForm(a) THEN <<ExpectedMs(a)>> ELSE << >>)
    /\ [][\A a \in StartArgs :
            (CsBegin(1, a) \/ SlashBegin(1, a))
               => IF TimeForm(a)
                  THEN \A p \in pending' \ pending : p.duration = ExpectedMs(a)
                  ELSE /\ result'.status = "invalid_format"
                       /\ UNCHANGED <<activeTimers, timers, pending>>]_vars

\* '!cs' with a malformed string is refused while the timer of an earlier
\* '!cs 12M' (or '!cs 12m') is resident
C23_ParsedThenRefused ==
    /\ result.op = "cs" /\ result.status = "invalid_format"
    /\ 1 \in DOMAIN activeTimers
    /\ timers[activeTimers[1]].message = "Timer: args"
    /\ timers[activeTimers[1]].duration = 12 * 60000

----------------------------------------------------------------------------
(* C24 *)

\* C24: while an expiry callback is suspended in its notification send or its
\* end sound, the timer it belongs to is no longer in the registry, so no
\* command handled during the suspension finds it.
C24_RemovedBeforeAwait ==
    \A e \in expiring :
        ~(e.ch \in DOMAIN activeTimers /\ activeTimers[e.ch] = e.tid)

----------------------------------------------------------------------------
(* C25 *)

\* C25: when an expiry callback ends, whether its notification send and its
\* end sound succeeded or failed, the timer it belongs to is not in the
\* registry any more.
C25_RemovedDespiteSinkFailure ==
    [][\A e \in expiring \ expiring' :
          ~(e.ch \in DOMAIN activeTimers' /\ activeTimers'[e.ch] = e.tid)]_vars

----------------------------------------------------------------------------
(* C26 *)

\* the update interval of timer object tid ticks and the message edit fails
FailedPush(tid) == RefreshTick(tid, FALSE) /\ ~RefreshTick(tid, TRUE)

\* C26: a refresh tick whose message edit fails leaves the registry and every
\* timer object as they were (the timer stays where it was, running, with its
\* expiry handle armed for the same endTime), emits nothing and drops the
\* channel's message, and a tick pushes only to a channel that has a message,
\* so the dropped one gets no further push.
C26_FailedPush ==
    [][/\ \A tid \in DOMAIN timers :
             FailedPush(tid)
                => /\ activeTimers' = activeTimers
                   /\ DOMAIN timers' = DOMAIN timers
                   /\ [timers' EXCEPT ![tid].updateIntervalId = timers[tid].updateIntervalId]
                         = timers
                   /\ timers[tid].channelId \notin timerMessages'
                   /\ events' = {}
       /\ \A e \in events' : e.type = "status_push" => e.ch \in timerMessages]_vars

\* the timer that a '/timer' with a duration started on channel 1 is in the registry, running
\* with its expiry handle armed for its endTime, after the edit of its message
\* failed at a tick
C26_CountdownGoesOn ==
    /\ 1 \in DOMAIN activeTimers
    /\ LET timer == timers[activeTimers[1]]
       IN  /\ timer.message = "Timer (duration)"
           /\ ~timer.isPaused
           /\ \E h \in timer.timeoutId : h.due = timer.endTime
           /\ \E h \in timer.updateIntervalId : h.next = now + TIMER_UPDATE_INTERVAL
           /\ now > timer.startTime
    /\ 1 \notin timerMessages
    /\ events = {}

----------------------------------------------------------------------------
(* Voice connections.  A connection object is a record of its guild and    *)
(* its status: "signalling" from joinVoiceChannel until the ready event,   *)
(* then "ready"; "disconnected" when the connecting failed; "destroyed"    *)
(* after destroy().  voiceConnections maps a guild to the identity of the  *)
(* connection recorded for it.                                              *)

MaxConnections == 3

VoiceGuilds == {GuildOf(c) : c \in CmdChannels}

FreshConnection == Cardinality(DOMAIN connections) + 1

\* joinVoiceChannel({ channelId, guildId, adapterCreator })
joinVoiceChannel(guildId) == [guild |-> guildId, status |-> "signalling"]

\* guild.members.me.voice.channel: the bot is in a voice channel of the guild
BotInVoice(guildId) ==
    \E id \in DOMAIN connections :
        connections[id].guild = guildId /\ connections[id].status = "ready"

\* joinVoiceChannelBot up to its await of the ready event
JoinBegin(guildId) ==
    /\ Cardinality(DOMAIN connections) < MaxConnections
    /\ connections' = MapSet(connections, FreshConnection, joinVoiceChannel(guildId))
    /\ joining' = joining \cup {[guild |-> guildId, conn |-> FreshConnection]}
    /\ UNCHANGED voiceConnections
    /\ UNCHANGED timerVars
    /\ UNCHANGED <<guardVars, historyVars>>

\* the connection became ready: joinVoiceChannelBot records and returns it
JoinReady(j) ==
    /\ j \in joining
    /\ connections[j.conn].status = "signalling"
    /\ connections' = [connections EXCEPT ![j.conn].status = "ready"]
    /\ voiceConnections' = MapSet(voiceConnections, j.guild, j.conn)
    /\ joining' = joining \ {j}
    /\ UNCHANGED timerVars
    /\ UNCHANGED <<guardVars, historyVars>>

\* entersState rejected or the 30 s timeout won the race: the catch block
\* destroys the connection and joinVoiceChannelBot returns null
JoinFail(j) ==
    /\ j \in joining
    /\ connections[j.conn].status = "signalling"
    /\ connections' = [connections EXCEPT ![j.conn].status = "destroyed"]
    /\ joining' = joining \ {j}
    /\ UNCHANGED voiceConnections
    /\ UNCHANGED timerVars
    /\ UNCHANGED <<guardVars, historyVars>>

\* '/voice-connect' by a user who is in a voice channel
VoiceConnectSlash(guildId) ==
    /\ ~BotInVoice(guildId)
    /\ Cardinality(DOMAIN connections) < MaxConnections
    /\ connections' = MapSet(connections, FreshConnection, joinVoiceChannel(guildId))
    /\ voiceConnections' = MapSet(voiceConnections, guildId, FreshConnection)
    /\ UNCHANGED joining
    /\ UNCHANGED timerVars
    /\ UNCHANGED <<guardVars, historyVars>>

\* a connection that no joinVoiceChannelBot call is waiting for becomes ready
ConnectionReady(id) ==
    /\ id \in DOMAIN connections
    /\ connections[id].status = "signalling"
    /\ \A j \in joining : j.conn # id
    /\ connections' = [connections EXCEPT ![id].status = "ready"]
    /\ UNCHANGED <<voiceConnections, joining>>
    /\ UNCHANGED timerVars
    /\ UNCHANGED <<guardVars, historyVars>>

\* the connecting of such a connection fails
ConnectionFail(id) ==
    /\ id \in DOMAIN connections
    /\ connections[id].status = "signalling"
    /\ \A j \in joining : j.conn # id
    /\ connections' = [connections EXCEPT ![id].status = "disconnected"]
    /\ UNCHANGED <<voiceConnections, joining>>
    /\ UNCHANGED timerVars
    /\ UNCHANGED <<guardVars, historyVars>>

\* leaveVoiceChannel(guildId) where a connection is recorded
leaveVoiceChannel(guildId) ==
    /\ guildId \in DOMAIN voiceConnections
    /\ connections' = [connections EXCEPT ![voiceConnections[guildId]].status = "destroyed"]
    /\ voiceConnections' = MapDelete(voiceConnections, guildId)
    /\ UNCHANGED joining
    /\ UNCHANGED timerVars
    /\ UNCHANGED <<guardVars, historyVars>>

\* the voice commands alone
NextVoice ==
    \/ \E g \in VoiceGuilds : JoinBegin(g)
    \/ \E j \in joining : JoinReady(j)
    \/ \E j \in joining : JoinFail(j)
    \/ \E g \in VoiceGuilds : VoiceConnectSlash(g)
    \/ \E id \in DOMAIN connections : ConnectionReady(id)
    \/ \E id \in DOMAIN connections : ConnectionFail(id)
    \/ \E g \in VoiceGuilds : leaveVoiceChannel(g)

SpecVoice == Init /\ [][NextVoice]_vars

----------------------------------------------------------------------------
(* C27 *)

\* guild g gets a connection recorded, or another one than before
Records(g) ==
    /\ g \in DOMAIN voiceConnections'
    /\ g \in DOMAIN voiceConnections => voiceConnections'[g] # voiceConnections[g]

\* C27: a connection whose connecting fails or times out before the ready
\* event is destroyed and is not recorded in voiceConnections, and a
\* connection is recorded only when it has reached the ready state.
C27_RecordedWhenReady ==
    [][/\ \A id \in DOMAIN connections :
             (connections[id].status = "signalling"
                 /\ connections'[id].status \notin {"signalling", "ready"})
                => /\ connections'[id].status = "destroyed"
                   /\ \A g \in DOMAIN voiceConnections' : voiceConnections'[g] # id
       /\ \A g \in VoiceGuilds :
             Records(g) => connections'[voiceConnections'[g]].status = "ready"]_vars

----------------------------------------------------------------------------
(* C28 *)

\* the armed handles of one purpose that belong to a timer object: the one
\* its property refers to and those the property was overwritten over
ArmedOf(timer, kind, handles) ==
    Cardinality(handles) + Cardinality({s \in timer.stray : s.kind = kind})

\* C28: every timer in the registry has at most one armed expiry timeout, at
\* most one armed warning timeout and at most one armed update interval,
\* whatever starts, pauses and resumes came before.
C28_OneHandlePerPurpose ==
    \A c \in DOMAIN activeTimers :
        LET timer == timers[activeTimers[c]]
        IN  /\ ArmedOf(timer, "timeout", timer.timeoutId) <= 1
            /\ ArmedOf(timer, "warning", timer.warningTimeoutId) <= 1
            /\ ArmedOf(timer, "interval", timer.updateIntervalId) <= 1

\* channel 1's timer, started, paused and resumed, has one handle of each
\* purpose armed
C28_RearmedOnce ==
    /\ result.op = "timer_pause" /\ result.status = "resumed" /\ result.ch = 1
    /\ 1 \in DOMAIN activeTimers
    /\ LET timer == timers[activeTimers[1]]
       IN  /\ ArmedOf(timer, "timeout", timer.timeoutId) = 1
           /\ ArmedOf(timer, "warning", timer.warningTimeoutId) = 1
           /\ ArmedOf(timer, "interval", timer.updateIntervalId) = 1
           /\ \E h \in timer.timeoutId : h.from = "resume"

----------------------------------------------------------------------------
(* C29 *)

\* C29: every timer in the registry has a duration above zero and an endTime
\* after its startTime, also after it was paused and resumed.
C29_PositiveDuration ==
    \A c \in DOMAIN activeTimers :
        LET timer == timers[activeTimers[c]]
        IN  timer.duration > 0 /\ timer.endTime > timer.startTime

\* channel 1's timer was resumed after some time in pause, which moved its
\* endTime past startTime + duration
C29_ResumedLater ==
    /\ result.op = "timer_pause" /\ result.status = "resumed" /\ result.ch = 1
    /\ 1 \in DOMAIN activeTimers
    /\ LET timer == timers[activeTimers[1]]
       IN  /\ ~timer.isPaused
           /\ timer.endTime > timer.startTime + timer.duration

----------------------------------------------------------------------------
(* C30 *)

\* the fields of a timer object that say what was started, where and when
Started(timer) ==
    <<timer.duration, timer.startTime, timer.channelId, timer.guildId, timer.message>>

\* C30: a pause or a resume leaves the channel's timer the same object with
\* the same duration, startTime, channelId, guildId and message, as does every
\* other step on an object it keeps; a channel's timer has other values for
\* them than before only after a start on that channel put a new timer there.
C30_PauseResumeFrame ==
    [][/\ \A c \in (DOMAIN activeTimers) \cap (DOMAIN activeTimers') :
             Toggles(c)
                => /\ activeTimers'[c] = activeTimers[c]
                   /\ Started(timers'[activeTimers'[c]]) = Started(timers[activeTimers[c]])
       /\ \A tid \in (DOMAIN timers) \cap (DOMAIN timers') :
             Started(timers'[tid]) = Started(timers[tid])
       /\ \A c \in (DOMAIN activeTimers) \cap (DOMAIN activeTimers') :
             Started(timers'[activeTimers'[c]]) # Started(timers[activeTimers[c]])
                => /\ result'.op \in StartOps /\ result'.status = "started"
                   /\ result'.ch = c
                   /\ activeTimers'[c] \notin DOMAIN timers]_vars

\* the timer that '/timer 2M' started on channel 1 at BootTime is paused
\* again after a pause and a later resume
C30_PausedAgain ==
    /\ result.op = "timer_pause" /\ result.status = "paused" /\ result.ch = 1
    /\ 1 \in DOMAIN activeTimers
    /\ LET timer == timers[activeTimers[1]]
       IN  /\ timer.isPaused
           /\ timer.endTime > timer.startTime + timer.duration
           /\ Started(timer) = <<2 * 60000, BootTime, 1, GuildOf(1), "Timer (duration)">>

----------------------------------------------------------------------------
(* C31 *)

\* C31: an expiry callback that completes removes from the registry no timer
\* but the one whose timeout ran it: a timer that a start put on the channel
\* while the callback was suspended is still in the registry afterwards, with
\* its handles armed.
C31_ExpiryRemovesOwnTimer ==
    [][\A e \in expiring \ expiring' :
          \A c \in DOMAIN activeTimers :
              activeTimers[c] # e.tid
                 => c \in DOMAIN activeTimers' /\ activeTimers'[c] = activeTimers[c]]_vars

----------------------------------------------------------------------------
(* C32 *)

\* the timer object has its expiry timeout armed for its endTime, and its
\* warning timeout armed when the warning is still to come at time t
FullyArmed(timer, t) ==
    /\ \E h \in timer.timeoutId : h.due = timer.endTime
    /\ (timer.duration > WARNING_TIME_BEFORE_END /\ timer.warningTime > t)
          => timer.warningTimeoutId # {}

\* C32: a start command that ends rejected for capacity changes neither the
\* registry nor any timer object in its last step, and the timer that is in
\* the registry on its channel, when running and not yet expiring, has its
\* expiry and warning timeouts armed as before the command.
C32_RejectedStartChangesNothing ==
    /\ [][(Rejected(result') /\ pending' # pending)
             => UNCHANGED <<activeTimers, timers>>]_vars
    /\ [](Rejected(result)
             => \A c \in DOMAIN activeTimers :
                   LET tid == activeTimers[c]
                   IN  (c = result.ch /\ ~timers[tid].isPaused
                           /\ \A e \in expiring : e.tid # tid)
                          => FullyArmed(timers[tid], now))

----------------------------------------------------------------------------
(* C33 *)

\* C33: the remaining time '!status' reports for a paused timer is the
\* timer's stored pausedRemainingTime, whatever the clock says; endTime - now
\* is reported for a running timer only.
C33_PausedStatus ==
    [][\A c \in DOMAIN activeTimers :
          (result'.op = "status" /\ result'.ch = c /\ result'.status = "active")
             => LET timer == timers[activeTimers[c]]
                IN  result'.remaining = IF timer.isPaused
                                        THEN PausedRemainingOrZero(timer)
                                        ELSE timer.endTime - now]_vars

----------------------------------------------------------------------------
(* C34 *)

\* C34: when a timer's expiry timeout fires, the time the timer has spent
\* running since its start, the time in pause left out, equals its duration.
C34_PausedTimeNotCounted ==
    [][\A e \in events' :
          e.type = "finished" => ran[e.tid] = timers[e.tid].duration]_vars

\* the timer of '!cs 1m' expires on channel 1 later than a minute after its
\* start, having been paused and resumed on the way
C34_ExpiredAfterPause ==
    /\ \E e \in events :
          /\ e.type = "finished" /\ e.ch = 1
          /\ e.tid \in DOMAIN timers
          /\ timers[e.tid].duration = 60000
          /\ now > timers[e.tid].startTime + timers[e.tid].duration
          /\ ran[e.tid] = 60000

----------------------------------------------------------------------------
(* C35 *)

\* C35: the warning cue is played at most once for a timer object: a timer
\* whose warning has fired has no warning timeout armed, whatever pauses and
\* resumes follow, and the cue is never played for it again; a resume arms
\* at most one warning timeout.
C35_WarningOnce ==
    /\ [](\A tid \in warned : timers[tid].warningTimeoutId = {})
    /\ [][\A e \in events' : e.type = "warning_sound" => e.tid \notin warned]_vars
    /\ [][\A c \in DOMAIN activeTimers' :
             (Toggles(c) /\ result'.status = "resumed")
                => Cardinality(timers'[activeTimers'[c]].warningTimeoutId) <= 1]_vars

\* channel 1's timer was resumed after its warning had fired and has no
\* warning timeout armed
C35_ResumedAfterWarning ==
    /\ result.op = "timer_pause" /\ result.status = "resumed" /\ result.ch = 1
    /\ 1 \in DOMAIN activeTimers
    /\ activeTimers[1] \in warned
    /\ timers[activeTimers[1]].warningTimeoutId = {}
    /\ timers[activeTimers[1]].timeoutId # {}

----------------------------------------------------------------------------
(* C36 *)

\* C36: while no start handler is suspended, every running timer in the
\* registry whose expiry callback has not begun has an expiry timeout armed
\* that is due at the timer's endTime.
C36_RunningHasExpiry ==
    pending = {}
       => \A c \in DOMAIN activeTimers :
             LET tid == activeTimers[c]
             IN  (~timers[tid].isPaused /\ \A e \in expiring : e.tid # tid)
                    => \E h \in timers[tid].timeoutId : h.due = timers[tid].endTime

----------------------------------------------------------------------------
(* C37 *)

\* the update interval of timer object tid ticks, the edit succeeding or not
Ticks(tid) == RefreshTick(tid, TRUE) \/ RefreshTick(tid, FALSE)

\* C37: a tick of an update interval removes no timer from the registry,
\* changes no timer object but for the interval's own next tick, and emits no
\* terminal notification; a tick of a timer with no time left pushes nothing.
C37_TickLeavesTimer ==
    [][\A tid \in DOMAIN timers :
          Ticks(tid)
             => /\ activeTimers' = activeTimers
                /\ \A c \in DOMAIN activeTimers :
                      LET r == activeTimers[c]
                      IN  /\ r \in DOMAIN timers'
                          /\ [timers'[r] EXCEPT !.updateIntervalId = timers[r].updateIntervalId]
                                = timers[r]
                /\ \A e \in events' : e.type = "status_push"
                /\ (timers[tid].endTime - now <= 0) => events' = {}]_vars

\* the update interval of channel 1's timer has just ticked at the timer's
\* end, with the channel's message still there and the expiry timeout still
\* to fire: nothing was pushed and the timer is in the registry
C37_TickAtEnd ==
    /\ 1 \in DOMAIN activeTimers
    /\ 1 \in timerMessages
    /\ LET timer == timers[activeTimers[1]]
       IN  /\ ~timer.isPaused
           /\ timer.endTime = now
           /\ timer.timeoutId # {}
           /\ \E h \in timer.updateIntervalId : h.next = now + TIMER_UPDATE_INTERVAL
    /\ events = {}
    /\ result = NoResult

----------------------------------------------------------------------------
(* Unmute history: microphoneUnmuteHistory maps a guild to the list of its  *)
(* entries, the most recent first.                                          *)

MAX_HISTORY_ENTRIES == 10
HISTORY_MAX_AGE == 86400000

\* the users who unmute during the run: two new ones and the user of the
\* oldest entry from before it (see InitUnmute)
UnmuteUsers == {1, 2, 2 * MAX_HISTORY_ENTRIES}

\* history.findIndex(entry => entry.userId === userId), 0 for -1
findIndex(history, userId) ==
    IF \E i \in 1..Len(history) : history[i].userId = userId
    THEN CHOOSE i \in 1..Len(history) :
            /\ history[i].userId = userId
            /\ \A j \in 1..(i - 1) : history[j].userId # userId
    ELSE 0

\* history.splice(index, 1)
splice(history, index) ==
    SubSeq(history, 1, index - 1) \o SubSeq(history, index + 1, Len(history))

\* addToMicrophoneHistory that does not remove the user's older entry
addToMicrophoneHistoryKeepsOlder(h, guildId, userId, t) ==
    LET history == IF guildId \in DOMAIN h THEN h[guildId] ELSE << >>
        added == <<[userId |-> userId, timestamp |-> t]>> \o history
        kept == IF Len(added) > MAX_HISTORY_ENTRIES
                THEN SubSeq(added, 1, MAX_HISTORY_ENTRIES) ELSE added
    IN  MapSet(h, guildId, kept)

\* addToMicrophoneHistory(guildId, userId, username) at time t, on the map h
addToMicrophoneHistory(h, guildId, userId, t) ==
    LET history == IF guildId \in DOMAIN h THEN h[guildId] ELSE << >>
        existingIndex == findIndex(history, userId)
        removed == IF existingIndex # 0 THEN splice(history, existingIndex) ELSE history
        added == <<[userId |-> userId, timestamp |-> t]>> \o removed
        kept == IF Len(added) > MAX_HISTORY_ENTRIES
                THEN SubSeq(added, 1, MAX_HISTORY_ENTRIES) ELSE added
    IN  MapSet(h, guildId, kept)

\* voiceStateUpdate: a member of the guild unmutes
Unmute(guildId, userId) ==
    /\ microphoneUnmuteHistory' =
          addToMicrophoneHistory(microphoneUnmuteHistory, guildId, userId, now)
    /\ UNCHANGED userCooldowns
    /\ UNCHANGED <<timerVars, voiceVars, historyVars>>

\* '/clear-mic-history'
ClearMicHistory(guildId) ==
    /\ microphoneUnmuteHistory' = MapSet(microphoneUnmuteHistory, guildId, << >>)
    /\ UNCHANGED userCooldowns
    /\ UNCHANGED <<timerVars, voiceVars, historyVars>>

\* the cleanup interval: entries of 24 hours and more are dropped, and a
\* guild left with no entry leaves the map
HistoryCleanup ==
    /\ LET filtered(g) == SelectSeq(microphoneUnmuteHistory[g],
                                    LAMBDA entry : now - entry.timestamp < HISTORY_MAX_AGE)
           left == {g \in DOMAIN microphoneUnmuteHistory : filtered(g) # << >>}
       IN  microphoneUnmuteHistory' = [g \in left |-> filtered(g)]
    /\ UNCHANGED userCooldowns
    /\ UNCHANGED <<timerVars, voiceVars, historyVars>>

\* guild 1 has nine entries from before the run
InitUnmute ==
    /\ now = BootTime
    /\ activeTimers = << >>
    /\ timers = << >>
    /\ defaultTimes = << >>
    /\ timerMessages = {}
    /\ timerUpdateThrottle = << >>
    /\ pending = {}
    /\ expiring = {}
    /\ events = {}
    /\ result = NoResult
    /\ lastPush = << >>
    /\ voiceConnections = << >>
    /\ connections = << >>
    /\ joining = {}
    /\ microphoneUnmuteHistory =
          [g \in {1} |-> [i \in 1..(MAX_HISTORY_ENTRIES - 1) |->
                             [userId |-> MAX_HISTORY_ENTRIES + 1 + i, timestamp |-> BootTime]]]
    /\ userCooldowns = << >>
    /\ ran = << >>
    /\ warned = {}

\* the unmute events and the commands on the history alone, with the clock
NextUnmute ==
    \/ \E g \in VoiceGuilds, u \in UnmuteUsers : Unmute(g, u)
    \/ \E g \in VoiceGuilds : ClearMicHistory(g)
    \/ HistoryCleanup
    \/ \E d \in Deltas : Advance(d, MaxTimeCap)

SpecUnmute == InitUnmute /\ [][NextUnmute]_vars

----------------------------------------------------------------------------
(* C38 *)

\* C38: every guild's unmute history has at most 10 entries, no two of them
\* of the same user, and is ordered most recent first; after an unmute the
\* user who unmuted is at its head.
C38_UnmuteHistory ==
    /\ [](\A g \in DOMAIN microphoneUnmuteHistory :
             LET history == microphoneUnmuteHistory[g]
             IN  /\ Len(history) <= 10
                 /\ \A i, j \in 1..Len(history) :
                       /\ i # j => history[i].userId # history[j].userId
                       /\ i < j => history[i].timestamp >= history[j].timestamp)
    /\ [][\A g \in VoiceGuilds, u \in UnmuteUsers :
             Unmute(g, u)
                => /\ g \in DOMAIN microphoneUnmuteHistory'
                   /\ Len(microphoneUnmuteHistory'[g]) > 0
                   /\ microphoneUnmuteHistory'[g][1].userId = u
                   /\ microphoneUnmuteHistory'[g][1].timestamp = now]_vars

\* guild 1's history is full; user 20, whose entry was the oldest, unmuted
\* again after users 1 and 2 and is at the head, and the entry of user 19 was
\* dropped for the bound
C38_FullHistory ==
    /\ 1 \in DOMAIN microphoneUnmuteHistory
    /\ LET history == microphoneUnmuteHistory[1]
           users == {history[i].userId : i \in 1..Len(history)}
       IN  /\ Len(history) = 10
           /\ history[1].userId = 20
           /\ {1, 2} \subseteq users
           /\ 19 \notin users

----------------------------------------------------------------------------
(* Per-user rate limit: userCooldowns maps a user to the time of the last  *)
(* command isRateLimited let through.                                      *)

RATE_LIMIT_MS == 1000
COOLDOWN_MAX_AGE == RATE_LIMIT_MS * 10

RateUsers == {1, 2}
RateDeltas == {500, 1000}
RateHorizon == 12000
MaxTimeRate == BootTime + RateHorizon

\* isRateLimited that also moves the window when it rejects
isRateLimitedMovesWindow(cooldowns, userId, t) ==
    IF userId \notin DOMAIN cooldowns \/ cooldowns[userId] = 0
    THEN [cooldowns |-> MapSet(cooldowns, userId, t), ret |-> FALSE]
    ELSE IF t - cooldowns[userId] < RATE_LIMIT_MS
         THEN [cooldowns |-> MapSet(cooldowns, userId, t), ret |-> TRUE]
         ELSE [cooldowns |-> MapSet(cooldowns, userId, t), ret |-> FALSE]

\* isRateLimited(userId) at time t: the map afterwards and the value returned
isRateLimited(cooldowns, userId, t) ==
    IF userId \notin DOMAIN cooldowns \/ cooldowns[userId] = 0
    THEN [cooldowns |-> MapSet(cooldowns, userId, t), ret |-> FALSE]
    ELSE IF t - cooldowns[userId] < RATE_LIMIT_MS
         THEN [cooldowns |-> cooldowns, ret |-> TRUE]
         ELSE [cooldowns |-> MapSet(cooldowns, userId, t), ret |-> FALSE]

\* a command of the user arrives (messageCreate, slash command or button)
\* and passes or stops at the rate limit; what it goes on to do is left out
Command(userId) ==
    /\ LET r == isRateLimited(userCooldowns, userId, now)
       IN  /\ userCooldowns' = r.cooldowns
           /\ result' = Outcome("isRateLimited", userId,
                                IF r.ret THEN "limited" ELSE "accepted", 0)
    /\ events' = {}
    /\ UNCHANGED <<now, activeTimers, timers, defaultTimes, timerMessages,
                   timerUpdateThrottle, pending, expiring, lastPush>>
    /\ UNCHANGED <<voiceVars, historyVars, microphoneUnmuteHistory>>

\* the cleanup interval drops the entries older than ten rate-limit windows
CooldownCleanup ==
    /\ userCooldowns' =
          [u \in {v \in DOMAIN userCooldowns :
                     ~(now - userCooldowns[v] > COOLDOWN_MAX_AGE)} |-> userCooldowns[u]]
    /\ UNCHANGED microphoneUnmuteHistory
    /\ UNCHANGED <<timerVars, voiceVars, historyVars>>

\* the commands of two users at the rate limit, with a clock of half windows
NextRate ==
    \/ \E u \in RateUsers : Command(u)
    \/ CooldownCleanup
    \/ \E d \in RateDeltas : Advance(d, MaxTimeRate)

SpecRate == Init /\ [][NextRate]_vars

----------------------------------------------------------------------------
(* C39 *)

\* this step is a command of user u met by isRateLimited with the given answer
Answered(u, answer) ==
    Command(u) /\ result'.status = answer

\* C39: a user's command is accepted exactly when the user has no accepted
\* command in the last 1000 ms; an accepted command is remembered with its
\* time, a rejected one changes nothing, and an entry leaves the map only
\* when it is older than 1000 ms, so that two accepted commands of a user are
\* at least 1000 ms apart and a user is accepted again 1000 ms after the last
\* accepted command however often they were rejected in between.
C39_RateLimit ==
    [][/\ \A u \in RateUsers :
             /\ Answered(u, "accepted")
                   => /\ u \in DOMAIN userCooldowns => now - userCooldowns[u] >= 1000
                      /\ u \in DOMAIN userCooldowns' /\ userCooldowns'[u] = now
             /\ Answered(u, "limited")
                   => /\ u \in DOMAIN userCooldowns /\ now - userCooldowns[u] < 1000
                      /\ UNCHANGED userCooldowns
       /\ \A u \in DOMAIN userCooldowns :
             \/ u \in DOMAIN userCooldowns' /\ userCooldowns'[u] = userCooldowns[u]
             \/ Answered(u, "accepted")
             \/ u \notin DOMAIN userCooldowns' /\ now - userCooldowns[u] >= 1000]_vars

\* user 1 is accepted 1000 ms after the start, which is exactly one window
\* after their first command if they sent one at once, while user 2 was
\* accepted half a window earlier
C39_AcceptedAgain ==
    /\ result = Outcome("isRateLimited", 1, "accepted", 0)
    /\ now = BootTime + 1000
    /\ 1 \in DOMAIN userCooldowns /\ userCooldowns[1] = now
    /\ 2 \in DOMAIN userCooldowns /\ userCooldowns[2] = BootTime + 500

====
